---- MODULE Spec2Model ----
(***************************************************************************)
(* Ingestion and resolution pipeline of the crypto dashboard:              *)
(*   collector scheduler  -> raw-info store -> processing queue            *)
(*   -> AI agent worker (bounded tool-use loop) -> entity operations.      *)
(* Time is counted in minutes.  Strings that are hashed are sequences of   *)
(* character codes; every other string is a TLA+ string.                   *)
(***************************************************************************)
EXTENDS Integers, Sequences, FiniteSets, TLC

\* ------------------------------------------------------------------ bounds
MaxTime == 2          \* the clock runs from 0 to MaxTime
MaxRiskFlags == 2     \* risk flags of an entity whose status is derived
MaxOppFlags == 1      \* opportunity flags of an entity whose status is derived
EventsPerRound == 5   \* add_event calls in one response of the event-history backend
MaxDeliveries == 2    \* deliveries of one message of the processing queue
MaxFetches == 2       \* calls of fetchEndpoint on one upstream
MaxProjects == 4      \* identified projects of one analysis
MaxOperations == 3    \* operations of one analysis output
MaxManualRuns == 2    \* single-source collection requests

\* ------------------------------------------------------- program constants
batchSize == 10       \* processCollectorResult
MaxRounds == 5        \* analyzeWithTools
DefaultMaxItems == 20 \* RssCollector.collect
INFO_QUEUE_URL == TRUE  \* set by the deployment (infra/api.ts)

\* ------------------------------------------------------------ pure helpers
Min(a, b) == IF a < b THEN a ELSE b

\* A 32-bit integer is kept as its two 16-bit halves <<hi, lo>> (unsigned).
Half == 65536

\* one round of the loop: hash = ((hash << 5) - hash) + char; hash = hash & hash,
\* that is 31 * hash + char modulo 2^32
HashRound(h, char) ==
  LET lo == 31 * h[2] + char
      hi == 31 * h[1] + (lo \div Half)
  IN  <<hi % Half, lo % Half>>

RECURSIVE HashLoop(_, _)
HashLoop(h, content) ==
  IF content = <<>> THEN h
  ELSE HashLoop(HashRound(h, Head(content)), Tail(content))

\* Number.prototype.toString(36) of a non-negative integer, as base-36 digits
RECURSIVE ToBase36(_)
ToBase36(n) == IF n < 36 THEN <<n>> ELSE Append(ToBase36(n \div 36), n % 36)

\* Math.abs(hash).toString(36); the halves are read as a signed 32-bit value
AbsToString36(h) ==
  IF h[1] < 32768 THEN ToBase36(h[1] * Half + h[2])
  ELSE IF h = <<32768, 0>> THEN <<35, 18, 20, 0, 35, 20>>
  ELSE ToBase36((Half - 1 - h[1]) * Half + (Half - h[2]))

generateContentHash(content) == AbsToString36(HashLoop(<<0, 0>>, content))

generateProjectInfoId(source, sourceId) == <<source, sourceId>>

generateSourceConfigId(type, sourceId) == type \o ":" \o sourceId

\* sourceConfig.sourceId.replace('rss:', '')
StripRss(sourceId) ==
  CASE sourceId = "rss:coindesk" -> "coindesk"
    [] OTHER -> sourceId

\* ------------------------------------------------------------ source catalog
ProjectSource == generateSourceConfigId("project_info", "defillama")
MarketSource == generateSourceConfigId("market_info", "rss:coindesk")
SourceIds == {ProjectSource, MarketSource}

SupportedCollectors == {"rss", "api:rest"}
isCollectorSupported(collectorType) == collectorType \in SupportedCollectors

NoTime == 0 - 1       \* lastCollectedAt / processedAt absent

EmptyStats ==
  [totalCollected |-> 0, successCount |-> 0, failedCount |-> 0, lastItemCount |-> 0]

createSourceConfig(type, sourceId, collectorType, intervalMinutes, priority, enabled) ==
  [ id |-> generateSourceConfigId(type, sourceId),
    type |-> type,
    sourceId |-> sourceId,
    collectorType |-> collectorType,
    intervalMinutes |-> intervalMinutes,
    priority |-> priority,
    enabled |-> enabled,
    enabledStr |-> IF enabled THEN "true" ELSE "false",
    lastCollectedAt |-> NoTime,
    lastCollectStatus |-> "",
    lastCollectError |-> "",
    stats |-> EmptyStats ]

VARIABLES
  now,        \* the clock, in minutes
  sources,    \* source-config table: id -> SourceConfig
  feed,       \* what each upstream currently serves: id -> sequence of raw items
  run,        \* the scheduled collection run (runConfigurableCollection)
  tasks,      \* the item tasks of the batch in flight (Promise.all)
  orphans,    \* item tasks still running after their batch was rejected
  rawInfo,    \* raw-info tables: <<type, id>> -> record
  queue,      \* visible messages of the processing queue: body -> count
  workers,    \* the AI agent invocations, one per message in flight
  entities,   \* projects table: id -> Project
  llm,        \* the responses the LLM backend can give (fixed per behaviour)
  seeders,    \* the calls of initializeDefaultSources in flight
  fetched     \* what the calls of RestApiCollector.fetchEndpoint returned

vars == <<now, sources, feed, run, tasks, orphans, rawInfo, queue, workers,
          entities, llm, seeders, fetched>>

\* ------------------------------------------------------------------- bags
BagAdd(b, e) ==
  IF e \in DOMAIN b THEN [b EXCEPT ![e] = @ + 1]
  ELSE [x \in DOMAIN b \cup {e} |-> IF x = e THEN 1 ELSE b[x]]

BagRemove(b, e) ==
  IF b[e] > 1 THEN [b EXCEPT ![e] = @ - 1]
  ELSE [x \in DOMAIN b \ {e} |-> b[x]]

EmptyFn == [x \in {} |-> 0]

\* a with the fields of b set
Merge(a, b) == [f \in DOMAIN a \cup DOMAIN b |-> IF f \in DOMAIN b THEN b[f] ELSE a[f]]

\* the concurrent calls of initializeDefaultSources (two collector invocations)
Seeders == {"s1", "s2"}

IdleSeeder == [pc |-> "idle", next |-> 1, created |-> 0]

\* ------------------------------------------------------------- upstreams
\* Raw records served by the REST upstream: a native id and the rest of the
\* payload; the RSS upstream serves items with a title and a link.  The
\* strings are character codes: 65 "A", 66 "B", 97 "a".
RestV1 == [id |-> <<97>>, data |-> <<65>>]
RestV2 == [id |-> <<97>>, data |-> <<66>>]
RssX == [title |-> <<65>>, link |-> <<97>>]
RssY == [title |-> <<66>>, link |-> <<66>>]

Feeds(id) ==
  IF id = ProjectSource THEN {<<RestV1>>, <<RestV2>>}
  ELSE {<<RssX>>, <<RssX, RssY>>}

\* JSON.stringify(rawData)
Stringify(raw) == raw.id \o raw.data

\* RestApiCollector.fetchEndpoint: one raw record -> ProjectInfo
RestItem(cfg, raw, time) ==
  [ id |-> generateProjectInfoId(cfg.sourceId, raw.id),
    source |-> cfg.sourceId,
    title |-> <<>>,
    link |-> <<>>,
    hash |-> generateContentHash(Stringify(raw)),
    collectedAt |-> time,
    processedStatus |-> "pending",
    processedAt |-> NoTime,
    processError |-> "",
    aiReasoning |-> "",
    sentiment |-> "" ]

\* RssCollector.collect: one feed item -> MarketInfo
RssItem(cfg, item, time) ==
  LET contentHash == generateContentHash(item.title \o item.link)
  IN  [ id |-> <<StripRss(cfg.sourceId), contentHash>>,
        source |-> cfg.sourceId,
        title |-> item.title,
        link |-> item.link,
        hash |-> contentHash,
        collectedAt |-> time,
        processedStatus |-> "pending",
        processedAt |-> NoTime,
        processError |-> "",
        aiReasoning |-> "",
        sentiment |-> "" ]

SubSeqTo(s, n) == SubSeq(s, 1, Min(n, Len(s)))

\* collector.collect(sourceConfig): a CollectorResult.  The REST collector
\* swallows the failure of an endpoint and reports success without its items;
\* the RSS collector reports a failed result.
Collect(cfg, upstream, fetchOk, time) ==
  IF cfg.collectorType = "api:rest"
  THEN [ success |-> TRUE, error |-> "",
         items |-> IF fetchOk
                   THEN [i \in 1..Len(upstream) |-> RestItem(cfg, upstream[i], time)]
                   ELSE <<>> ]
  ELSE IF fetchOk
       THEN [ success |-> TRUE, error |-> "",
              items |-> [i \in 1..Min(DefaultMaxItems, Len(upstream)) |->
                           RssItem(cfg, upstream[i], time)] ]
       ELSE [ success |-> FALSE, error |-> "HTTP 500", items |-> <<>> ]

\* ----------------------------------------------------- field mapping
\* A JSON value with its type t and its String(value) v; an object also has
\* its fields f, an array its elements f.
Str(x) == [t |-> "string", v |-> x]
Num(x) == [t |-> "number", v |-> x]
Null == [t |-> "null", v |-> "null"]
Undefined == [t |-> "undefined", v |-> "undefined"]
Obj(fields) == [t |-> "object", v |-> "[object Object]", f |-> fields]

\* what a raised exception leaves in place of a value
Thrown == [t |-> "throw", v |-> "RangeError: Invalid time value"]

\* the operand of || that JavaScript takes
Falsy(value) ==
  \/ value.t \in {"undefined", "null"}
  \/ value.t = "string" /\ value.v = ""
  \/ value.t = "number" /\ value.v \in {"0", "NaN"}

Or(a, b) == IF Falsy(a) THEN b ELSE a

\* record[field], undefined when the field is absent
Field(record, field) == IF field \in DOMAIN record THEN record[field] ELSE Undefined

\* getNestedValue; the path is given as its parts (path.split('.'))
RECURSIVE getNestedValue(_, _)
getNestedValue(current, parts) ==
  IF parts = <<>> THEN current
  ELSE IF current.t \in {"null", "undefined"} THEN Undefined
  ELSE IF current.t = "object"
       THEN getNestedValue(Field(current.f, Head(parts)), Tail(parts))
       ELSE Undefined

\* the strings of the sampled records that Date parses, and their toISOString()
ParsesAsDate(x) == x \in {"2024-01-01"}
ToISOString(x) == CASE x = "2024-01-01" -> "2024-01-01T00:00:00.000Z" [] OTHER -> x

\* String.prototype.toLowerCase / toUpperCase on the sampled strings
ToLowerCase(x) ==
  CASE x = "ACME" -> "acme" [] x = "[object Object]" -> "[object object]" [] OTHER -> x
ToUpperCase(x) ==
  CASE x = "acme" -> "ACME" [] x = "beta" -> "BETA" [] x = "soon" -> "SOON"
    [] x = "null" -> "NULL" [] x = "[object Object]" -> "[OBJECT OBJECT]" [] OTHER -> x

\* Number(value) on the sampled values
ToNumber(value) ==
  CASE value.t = "number" -> value
    [] value.t = "null" -> Num("0")
    [] value.t = "string" /\ value.v = "" -> Num("0")
    [] value.t = "string" /\ value.v \in {"0", "7"} -> Num(value.v)
    [] OTHER -> Num("NaN")

\* transformValue: new Date(String(value)).toISOString() raises a RangeError
\* for a string that is not a date
transformValue(value, transform) ==
  CASE transform = "string" -> Str(value.v)
    [] transform = "number" -> ToNumber(value)
    [] transform = "date" -> IF ParsesAsDate(value.v) THEN Str(ToISOString(value.v)) ELSE Thrown
    [] transform = "array" ->
         [t |-> "array", v |-> IF value.t = "null" THEN "" ELSE value.v, f |-> <<value>>]
    [] transform = "lowercase" -> Str(ToLowerCase(value.v))
    [] transform = "uppercase" -> Str(ToUpperCase(value.v))
    [] OTHER -> value

\* applyMapping, one rule: a string rule is a path, a FieldMappingRule has a
\* source and may have a default and a transform
MapRule(data, rule) ==
  IF "path" \in DOMAIN rule THEN getNestedValue(data, rule.path)
  ELSE LET found == getNestedValue(data, rule.source)
           value == IF found = Undefined /\ "default" \in DOMAIN rule
                    THEN rule.default ELSE found
       IN  IF value # Undefined /\ "transform" \in DOMAIN rule
           THEN transformValue(value, rule.transform)
           ELSE value

\* applyMapping: the mapped record, or the exception a transform raised
applyMapping(data, mapping) ==
  LET result == [targetField \in DOMAIN mapping |-> MapRule(data, mapping[targetField])]
  IN  [ threw |-> \E targetField \in DOMAIN mapping : result[targetField] = Thrown,
        result |-> result ]

\* fetchEndpoint, one mapped item -> ProjectInfo; random is what Math.random()
\* returns (dataHash is left to RestItem)
MappedInfo(cfg, item, mappedData, random, time) ==
  LET sourceId == Or(Or(Or(Field(mappedData, "id"), Field(mappedData, "slug")),
                        Field(mappedData, "symbol")), Num(random)).v
  IN  [ id |-> generateProjectInfoId(cfg.sourceId, sourceId),
        source |-> cfg.sourceId,
        sourceId |-> sourceId,
        rawData |-> item,
        name |-> Or(Field(mappedData, "name"), Str(sourceId)).v,
        collectedAt |-> time,
        processedStatus |-> "pending" ]

\* fetchEndpoint after the response has arrived: limitedItems.map(...); an
\* exception raised for one item ends the call
fetchEndpoint(cfg, mapping, limitedItems, randoms, time) ==
  IF \E i \in DOMAIN limitedItems : applyMapping(Obj(limitedItems[i]), mapping).threw
  THEN [threw |-> TRUE, items |-> <<>>]
  ELSE [ threw |-> FALSE,
         items |-> [i \in DOMAIN limitedItems |->
                      MappedInfo(cfg, limitedItems[i],
                                 applyMapping(Obj(limitedItems[i]), mapping).result,
                                 randoms[i], time)] ]

\* ------------------------------------------------- source-config service
\* variant: the interval is compared strictly
shouldCollect_Strict(config, time) ==
  IF ~config.enabled THEN FALSE
  ELSE IF config.lastCollectedAt = NoTime THEN TRUE
  ELSE time - config.lastCollectedAt > config.intervalMinutes

shouldCollect(config, time) ==
  IF ~config.enabled THEN FALSE
  ELSE IF config.lastCollectedAt = NoTime THEN TRUE
  ELSE time - config.lastCollectedAt >= config.intervalMinutes

getEnabledSourceConfigs(srcs) == {id \in DOMAIN srcs : srcs[id].enabledStr = "true"}

\* variant: a failure counts as a collection too
updateSourceCollectionStatus_CountsBoth(srcs, id, status, error, itemCount, time) ==
  IF id \notin DOMAIN srcs THEN srcs
  ELSE
    LET config == srcs[id]
        newStats ==
          [ totalCollected |-> config.stats.totalCollected + itemCount,
            successCount |-> config.stats.successCount + 1,
            failedCount |-> config.stats.failedCount + (IF status = "failed" THEN 1 ELSE 0),
            lastItemCount |-> itemCount ]
    IN  [srcs EXCEPT ![id] =
          [config EXCEPT
             !.lastCollectedAt = time,
             !.lastCollectStatus = status,
             !.lastCollectError =
                IF status = "failed"
                THEN (IF error = "" THEN "Unknown error" ELSE error)
                ELSE "",
             !.stats = newStats]]

\* variant: the error of the collector is not the one stored
updateSourceCollectionStatus_DropsError(srcs, id, status, error, itemCount, time) ==
  IF id \notin DOMAIN srcs THEN srcs
  ELSE
    LET config == srcs[id]
        newStats ==
          [ totalCollected |-> config.stats.totalCollected + itemCount,
            successCount |-> config.stats.successCount + (IF status = "success" THEN 1 ELSE 0),
            failedCount |-> config.stats.failedCount + (IF status = "failed" THEN 1 ELSE 0),
            lastItemCount |-> itemCount ]
    IN  [srcs EXCEPT ![id] =
          [config EXCEPT
             !.lastCollectedAt = time,
             !.lastCollectStatus = status,
             !.lastCollectError = IF status = "failed" THEN "Unknown error" ELSE "",
             !.stats = newStats]]

updateSourceCollectionStatus(srcs, id, status, error, itemCount, time) ==
  IF id \notin DOMAIN srcs THEN srcs
  ELSE
    LET config == srcs[id]
        newStats ==
          [ totalCollected |-> config.stats.totalCollected + itemCount,
            successCount |-> config.stats.successCount + (IF status = "success" THEN 1 ELSE 0),
            failedCount |-> config.stats.failedCount + (IF status = "failed" THEN 1 ELSE 0),
            lastItemCount |-> itemCount ]
    IN  [srcs EXCEPT ![id] =
          [config EXCEPT
             !.lastCollectedAt = time,
             !.lastCollectStatus = status,
             !.lastCollectError =
                IF status = "failed"
                THEN (IF error = "" THEN "Unknown error" ELSE error)
                ELSE "",
             !.stats = newStats]]

\* DEFAULT_PROJECT_INFO_SOURCES / DEFAULT_MARKET_INFO_SOURCES (the two modelled)
DefaultSources ==
  [id \in SourceIds |->
     IF id = ProjectSource
     THEN createSourceConfig("project_info", "defillama", "api:rest", 15, 20, TRUE)
     ELSE createSourceConfig("market_info", "rss:coindesk", "rss", 15, 10, TRUE)]

\* allDefaults, in the order they are saved
DefaultList == <<ProjectSource, MarketSource>>

\* variant: the seeding is skipped only when every default entry exists
SkipsSeeding_PerEntry(existing) == \A i \in DOMAIN DefaultList : DefaultList[i] \in existing

\* initializeDefaultSources, its guard: existing.length > 0
SkipsSeeding(existing) == existing # {}

\* initializeDefaultSources as one step (a call nothing interleaves with)
initializeDefaultSources(srcs) == IF SkipsSeeding(DOMAIN srcs) THEN srcs ELSE DefaultSources

\* initializeDefaultSources, the scan of the catalog
SeedScan(s) ==
  /\ seeders[s].pc = "idle"
  /\ seeders' = [seeders EXCEPT ![s] =
                   IF SkipsSeeding(DOMAIN sources)
                   THEN [pc |-> "done", next |-> 1, created |-> 0]
                   ELSE [pc |-> "save", next |-> 1, created |-> 0]]
  /\ UNCHANGED <<now, sources, feed, run, tasks, orphans, rawInfo, queue, workers,
                 entities, llm, fetched>>

\* initializeDefaultSources, one round of its loop: saveSourceConfig (a put)
SeedSave(s) ==
  /\ seeders[s].pc = "save"
  /\ LET id == DefaultList[seeders[s].next]
         last == seeders[s].next = Len(DefaultList)
     IN  /\ sources' = [k \in DOMAIN sources \cup {id} |->
                          IF k = id THEN DefaultSources[id] ELSE sources[k]]
         /\ seeders' = [seeders EXCEPT ![s].pc = IF last THEN "done" ELSE "save",
                                       ![s].next = @ + 1,
                                       ![s].created = @ + 1]
  /\ UNCHANGED <<now, feed, run, tasks, orphans, rawInfo, queue, workers,
                 entities, llm, fetched>>

\* the call has returned createdCount; the caller goes on
SeedReturn(s) ==
  /\ seeders[s].pc = "done"
  /\ seeders' = [seeders EXCEPT ![s] = IdleSeeder]
  /\ UNCHANGED <<now, sources, feed, run, tasks, orphans, rawInfo, queue, workers,
                 entities, llm, fetched>>

\* every ordering of the set S of configs that sort() by priority can return
SortedByPriority(srcs, S) ==
  { q \in [1..Cardinality(S) -> S] :
      /\ \A i, j \in 1..Cardinality(S) : i < j => q[i] # q[j]
      /\ \A i, j \in 1..Cardinality(S) :
           i < j => srcs[q[i]].priority <= srcs[q[j]].priority }

\* ------------------------------------------------ ingestion coordinator
RawKey(type, id) == <<type, id>>

\* variant: the comparison reads the collection time where the hash belongs
isDuplicateProjectInfo_ByTime(info, readOk) ==
  /\ readOk
  /\ RawKey("project_info", info.id) \in DOMAIN rawInfo
  /\ rawInfo[RawKey("project_info", info.id)].collectedAt = info.collectedAt

\* variant: the lookup goes to the other table
isDuplicateMarketInfo_WrongTable(info, readOk) ==
  /\ readOk
  /\ RawKey("project_info", info.id) \in DOMAIN rawInfo

isDuplicateProjectInfo(info, readOk) ==
  /\ readOk
  /\ RawKey("project_info", info.id) \in DOMAIN rawInfo
  /\ rawInfo[RawKey("project_info", info.id)].hash = info.hash

isDuplicateMarketInfo(info, readOk) ==
  /\ readOk
  /\ RawKey("market_info", info.id) \in DOMAIN rawInfo

isDuplicate(t, readOk) ==
  IF t.type = "project_info" THEN isDuplicateProjectInfo(t.info, readOk)
  ELSE isDuplicateMarketInfo(t.info, readOk)

PutItem(table, key, item) ==
  [k \in DOMAIN table \cup {key} |-> IF k = key THEN item ELSE table[k]]

Message(t) == [type |-> t.type, infoId |-> t.info.id]

TerminalPc == {"saved", "skipped", "threw"}

CommitTask(i, t2) == tasks' = [tasks EXCEPT ![i] = t2] /\ UNCHANGED orphans

CommitOrphan(o, t2) ==
  /\ orphans' = (orphans \ {o}) \cup (IF t2.pc \in TerminalPc THEN {} ELSE {t2})
  /\ UNCHANGED tasks

\* saveProjectInfo / saveMarketInfo, the duplicate check: the item task after
\* it (a failed read counts as "not a duplicate")
CheckOutcomes(t) ==
  { [t EXCEPT !.pc = IF isDuplicate(t, readOk) THEN "skipped" ELSE "put",
              !.readFailed = ~readOk] : readOk \in BOOLEAN }

\* variant: the item task goes on to the send when the PutCommand raised
PutOutcomes_SendsAnyway(t) ==
  { [task |-> [t EXCEPT !.pc = "send"],
     table |-> PutItem(rawInfo, RawKey(t.type, t.info.id), t.info)],
    [task |-> [t EXCEPT !.pc = "send"], table |-> rawInfo] }

\* saveProjectInfo / saveMarketInfo, the PutCommand: the item task and the
\* table after it (the command succeeds or raises)
PutOutcomes(t) ==
  { [task |-> [t EXCEPT !.pc = "send"],
     table |-> PutItem(rawInfo, RawKey(t.type, t.info.id), t.info)],
    [task |-> [t EXCEPT !.pc = "threw"], table |-> rawInfo] }

\* sendToQueue: the item task and the queue after it (nothing is sent without
\* a queue URL; the SendMessageCommand succeeds or raises)
SendOutcomes(t) ==
  IF ~INFO_QUEUE_URL
  THEN { [task |-> [t EXCEPT !.pc = "saved"], messages |-> queue] }
  ELSE { [task |-> [t EXCEPT !.pc = "saved"], messages |-> BagAdd(queue, Message(t))],
         [task |-> [t EXCEPT !.pc = "threw"], messages |-> queue] }

TaskCheck ==
  /\ \E i \in DOMAIN tasks :
       /\ tasks[i].pc = "check"
       /\ \E t2 \in CheckOutcomes(tasks[i]) : CommitTask(i, t2)
  /\ UNCHANGED <<now, sources, feed, run, rawInfo, queue, workers, entities, llm, seeders, fetched>>

TaskPut ==
  /\ \E i \in DOMAIN tasks :
       /\ tasks[i].pc = "put"
       /\ \E out \in PutOutcomes(tasks[i]) :
            rawInfo' = out.table /\ CommitTask(i, out.task)
  /\ UNCHANGED <<now, sources, feed, run, queue, workers, entities, llm, seeders, fetched>>

TaskSend ==
  /\ \E i \in DOMAIN tasks :
       /\ tasks[i].pc = "send"
       /\ \E out \in SendOutcomes(tasks[i]) :
            queue' = out.messages /\ CommitTask(i, out.task)
  /\ UNCHANGED <<now, sources, feed, run, rawInfo, workers, entities, llm, seeders, fetched>>

OrphanCheck ==
  /\ \E o \in orphans :
       /\ o.pc = "check"
       /\ \E t2 \in CheckOutcomes(o) : CommitOrphan(o, t2)
  /\ UNCHANGED <<now, sources, feed, run, rawInfo, queue, workers, entities, llm, seeders, fetched>>

OrphanPut ==
  /\ \E o \in orphans :
       /\ o.pc = "put"
       /\ \E out \in PutOutcomes(o) :
            rawInfo' = out.table /\ CommitOrphan(o, out.task)
  /\ UNCHANGED <<now, sources, feed, run, queue, workers, entities, llm, seeders, fetched>>

OrphanSend ==
  /\ \E o \in orphans :
       /\ o.pc = "send"
       /\ \E out \in SendOutcomes(o) :
            queue' = out.messages /\ CommitOrphan(o, out.task)
  /\ UNCHANGED <<now, sources, feed, run, rawInfo, workers, entities, llm, seeders, fetched>>

IdleRun == [pc |-> "idle", due |-> <<>>, cur |-> "", type |-> "", items |-> <<>>,
            next |-> 1, saved |-> 0, skipped |-> 0]

\* variant: every remaining item in one batch
Batch_Whole(type, items, from) ==
  [i \in 1..(Len(items) - from + 1) |->
     [type |-> type, info |-> items[from + i - 1], pc |-> "check", readFailed |-> FALSE]]

\* the batch items[from .. from + batchSize - 1] as item tasks
Batch(type, items, from) ==
  [i \in 1..Min(batchSize, Len(items) - from + 1) |->
     [type |-> type, info |-> items[from + i - 1], pc |-> "check", readFailed |-> FALSE]]

\* runConfigurableCollection, up to the sorted list of due sources
RunStart ==
  /\ run.pc = "idle"
  /\ LET seeded == initializeDefaultSources(sources)
         due == {id \in getEnabledSourceConfigs(seeded) : shouldCollect(seeded[id], now)}
     IN  /\ sources' = seeded
         /\ \E q \in SortedByPriority(seeded, due) :
              run' = [IdleRun EXCEPT !.pc = "loop",
                                     !.due = [i \in 1..Len(q) |-> seeded[q[i]]]]
  /\ UNCHANGED <<now, feed, tasks, orphans, rawInfo, queue, workers, entities, llm, seeders, fetched>>

\* the end of the loop over the due sources
RunEnd ==
  /\ run.pc = "loop"
  /\ run.due = <<>>
  /\ run' = IdleRun
  /\ UNCHANGED <<now, sources, feed, tasks, orphans, rawInfo, queue, workers, entities, llm, seeders, fetched>>

\* collectFromSource, up to the first batch of processCollectorResult
CollectFromSource ==
  /\ run.pc = "loop"
  /\ run.due # <<>>
  /\ LET cfg == Head(run.due)
         rest == [run EXCEPT !.due = Tail(run.due)]
     IN  IF ~isCollectorSupported(cfg.collectorType)
         THEN /\ run' = rest
              /\ UNCHANGED <<sources, tasks>>
         ELSE \E fetchOk \in BOOLEAN :
                LET result == Collect(cfg, feed[cfg.id], fetchOk, now)
                IN  IF ~result.success
                    THEN /\ sources' = updateSourceCollectionStatus(
                                          sources, cfg.id, "failed", result.error, 0, now)
                         /\ run' = rest
                         /\ UNCHANGED tasks
                    ELSE IF result.items = <<>>
                    THEN /\ sources' = updateSourceCollectionStatus(
                                          sources, cfg.id, "success", "", 0, now)
                         /\ run' = rest
                         /\ UNCHANGED tasks
                    ELSE /\ run' = [rest EXCEPT !.pc = "batch", !.cur = cfg.id,
                                                 !.type = cfg.type,
                                                 !.items = result.items, !.next = 1,
                                                 !.saved = 0, !.skipped = 0]
                         /\ tasks' = Batch(cfg.type, result.items, 1)
                         /\ UNCHANGED sources
  /\ UNCHANGED <<now, feed, orphans, rawInfo, queue, workers, entities, llm, seeders, fetched>>

CountPc(pc) == Cardinality({i \in DOMAIN tasks : tasks[i].pc = pc})

\* Promise.all resolves: count the batch, start the next one or finish the source
BatchSettle ==
  /\ run.pc = "batch"
  /\ \A i \in DOMAIN tasks : tasks[i].pc \in {"saved", "skipped"}
  /\ LET saved == run.saved + CountPc("saved")
         skipped == run.skipped + CountPc("skipped")
         from == run.next + batchSize
     IN  IF from <= Len(run.items)
         THEN /\ run' = [run EXCEPT !.next = from, !.saved = saved, !.skipped = skipped]
              /\ tasks' = Batch(run.type, run.items, from)
              /\ UNCHANGED sources
         ELSE /\ sources' = updateSourceCollectionStatus(
                               sources, run.cur, "success", "", saved, now)
              /\ run' = [IdleRun EXCEPT !.pc = "loop", !.due = run.due]
              /\ tasks' = <<>>
  /\ UNCHANGED <<now, feed, orphans, rawInfo, queue, workers, entities, llm, seeders, fetched>>

\* Promise.all rejects as soon as one item task throws: collectFromSource's catch
BatchReject ==
  /\ run.pc = "batch"
  /\ \E i \in DOMAIN tasks : tasks[i].pc = "threw"
  /\ sources' = updateSourceCollectionStatus(
                   sources, run.cur, "failed", "write or send failed", 0, now)
  /\ run' = [IdleRun EXCEPT !.pc = "loop", !.due = run.due]
  /\ orphans' = orphans \cup {tasks[i] : i \in {j \in DOMAIN tasks : tasks[j].pc \notin TerminalPc}}
  /\ tasks' = <<>>
  /\ UNCHANGED <<now, feed, rawInfo, queue, workers, entities, llm, seeders, fetched>>

\* ------------------------------------------------------------ environment
Tick ==
  /\ now < MaxTime
  /\ now' = now + 1
  /\ UNCHANGED <<sources, feed, run, tasks, orphans, rawInfo, queue, workers, entities, llm, seeders, fetched>>

\* the upstream publishes something else
UpstreamChange ==
  /\ run.pc = "idle"
  /\ \E id \in DOMAIN feed : \E f \in Feeds(id) :
       /\ f # feed[id]
       /\ feed' = [feed EXCEPT ![id] = f]
  /\ UNCHANGED <<now, sources, run, tasks, orphans, rawInfo, queue, workers, entities, llm, seeders, fetched>>

\* toggleSourceConfig (administrative surface)
toggleSourceConfig ==
  /\ \E id \in DOMAIN sources :
       LET newEnabled == ~sources[id].enabled
       IN  sources' = [sources EXCEPT ![id].enabled = newEnabled,
                                      ![id].enabledStr = IF newEnabled THEN "true" ELSE "false"]
  /\ UNCHANGED <<now, feed, run, tasks, orphans, rawInfo, queue, workers, entities, llm, seeders, fetched>>

CollectorNext ==
  \/ RunStart \/ CollectFromSource \/ RunEnd
  \/ TaskCheck \/ TaskPut \/ TaskSend
  \/ BatchSettle \/ BatchReject

\* item tasks that outlive their batch arise in batches of two or more items
OrphanNext == OrphanCheck \/ OrphanPut \/ OrphanSend


\* ------------------------------------------------------- AI agent (worker)
Workers == {"w1", "w2"}

IdleWorker ==
  [ pc |-> "idle", msg |-> [type |-> "", infoId |-> <<>>], status |-> "", hash |-> <<>>,
    llmCalls |-> 0, ops |-> <<>>, sentiment |-> "", reasoning |-> "",
    k |-> 1, write |-> <<>>, entityId |-> "", failed |-> FALSE, error |-> "",
    response |-> [content |-> <<>>, stop_reason |-> ""], messages |-> <<>> ]

\* a tool_use block of a response
ToolUse(name, input) == [name |-> name, input |-> input]

\* tool calls the modelled LLM can emit, with one input per tool; an input
\* holds the fields the LLM supplied
ToolCall(name) ==
  ToolUse(name,
    CASE name = "create_project" ->
           [id |-> "acme", name |-> "Acme", category |-> "defi", description |-> "v2"]
      [] name = "update_project" -> [entityId |-> "acme", newsSentiment |-> "negative"]
      [] name = "add_event" -> [entityId |-> "acme", title |-> "Hack"]
      [] name = "add_risk_flag" ->
           [entityId |-> "acme", flagType |-> "security_breach",
            severity |-> "critical", description |-> "hack"]
      [] name = "add_opportunity_flag" ->
           [entityId |-> "acme", flagType |-> "listing",
            importance |-> "high", description |-> "listed"]
      [] OTHER -> [x \in {} |-> ""])

Response(names, stop) ==
  [tools |-> [i \in 1..Len(names) |-> ToolCall(names[i])], stop_reason |-> stop]

\* every response of the modelled LLM
AllResponses ==
  { Response(<<>>, "end_turn"),
    Response(<<"create_project">>, "tool_use"),
    Response(<<"add_event">>, "tool_use"),
    Response(<<"add_event">>, "end_turn"),
    Response(<<"add_event", "report_analysis">>, "tool_use"),
    Response(<<"report_analysis">>, "tool_use"),
    Response(<<"report_analysis">>, "end_turn"),
    Response(<<"search_web">>, "tool_use") }

\* a backend that answers in one round
BriefResponses ==
  { Response(<<"add_event", "report_analysis">>, "end_turn"),
    Response(<<>>, "end_turn") }

\* the fields of F that the record r holds (an absent field is undefined)
Pick(r, F) == [f \in DOMAIN r \cap F |-> r[f]]

\* toolCallToOperation; <<>> stands for null
toolCallToOperation(toolUse) ==
  LET input == toolUse.input
  IN  CASE toolUse.name = "create_project" ->
             <<[type |-> "create",
                entity |-> Pick(input, {"id", "name", "category", "description",
                                        "logo", "website", "twitter"})]>>
        [] toolUse.name = "update_project" ->
             <<[type |-> "update", entityId |-> input.entityId,
                updates |-> Pick(input, {"healthScore", "status", "newsSentiment"})]>>
        [] toolUse.name = "add_event" ->
             <<[type |-> "add_event", entityId |-> input.entityId,
                event |-> Pick(input, {"title", "description", "date", "source",
                                       "sourceUrl", "sentiment", "eventType"})]>>
        [] toolUse.name = "add_risk_flag" ->
             <<[type |-> "add_risk_flag", entityId |-> input.entityId,
                flag |-> [type |-> input.flagType, severity |-> input.severity,
                          description |-> input.description]]>>
        [] toolUse.name = "add_opportunity_flag" ->
             <<[type |-> "add_opportunity_flag", entityId |-> input.entityId,
                flag |-> [type |-> input.flagType, importance |-> input.importance,
                          description |-> input.description]]>>
        [] OTHER -> <<>>

\* variant: a later tool call goes before the earlier ones
RECURSIVE ProcessToolCalls_Reversed(_, _)
ProcessToolCalls_Reversed(acc, tools) ==
  IF tools = <<>> THEN acc
  ELSE LET toolUse == Head(tools)
       IN  ProcessToolCalls_Reversed(
             IF toolUse.name = "report_analysis"
             THEN [acc EXCEPT !.sentiment = "negative", !.reasoning = "reported"]
             ELSE [acc EXCEPT !.ops = toolCallToOperation(toolUse) \o @],
             Tail(tools))

\* the body of one round of analyzeWithTools' loop, after the response arrived:
\* the tool calls are processed in order
RECURSIVE ProcessToolCalls(_, _)
ProcessToolCalls(acc, tools) ==
  IF tools = <<>> THEN acc
  ELSE LET toolUse == Head(tools)
       IN  ProcessToolCalls(
             IF toolUse.name = "report_analysis"
             THEN [acc EXCEPT !.sentiment = "negative", !.reasoning = "reported"]
             ELSE [acc EXCEPT !.ops = @ \o toolCallToOperation(toolUse)],
             Tail(tools))

\* response.content of round i: the tool_use blocks with the ids the LLM gave them
Content(response, i) ==
  [j \in DOMAIN response.tools |-> Merge(response.tools[j], [id |-> <<i, j>>])]

\* the tool_result analyzeWithTools answers a tool_use block with
ToolResult(toolUse) ==
  [ type |-> "tool_result", tool_use_id |-> toolUse.id,
    success |-> toolUse.name = "report_analysis" \/ toolCallToOperation(toolUse) # <<>> ]

\* the first message: the user prompt
UserPrompt == [role |-> "user", content |-> <<>>]

\* variant: the tool results are not pushed
PushMessages_NoResults(messages, content) ==
  IF content = <<>> THEN messages
  ELSE messages \o <<[role |-> "assistant", content |-> content]>>

\* messages after a round: the assistant's content and the tool results are
\* pushed when the response held a tool call
PushMessages(messages, content) ==
  IF content = <<>> THEN messages
  ELSE messages \o << [role |-> "assistant", content |-> content],
                      [role |-> "user",
                       content |-> [j \in DOMAIN content |-> ToolResult(content[j])]] >>

\* variant: the loop goes on after a round without tool calls
LoopContinues_Empty(response, llmCalls) ==
  /\ response.stop_reason # "end_turn"
  /\ llmCalls < MaxRounds

\* variant: the stop reason is not looked at
LoopContinues_IgnoresStop(response, llmCalls) ==
  /\ response.tools # <<>>
  /\ llmCalls < MaxRounds

\* variant: the round counter is compared one too far
LoopContinues_OffByOne(response, llmCalls) ==
  /\ response.tools # <<>>
  /\ response.stop_reason # "end_turn"
  /\ llmCalls <= MaxRounds

\* whether the loop of analyzeWithTools goes on after this round
LoopContinues(response, llmCalls) ==
  /\ response.tools # <<>>
  /\ response.stop_reason # "end_turn"
  /\ llmCalls < MaxRounds

\* ---------------------------------------------------------- entity layer
\* An entity is a record holding the attributes its item has; an item written
\* by an UpdateCommand alone holds only the key and the attributes that were set.
MaxEvents == 20

\* project.<list> || []
ListOf(project, field) == IF field \in DOMAIN project THEN project[field] ELSE <<>>

\* variant: the write prepends to the lists the item holds by then
updateProject_ListAppend(store, id, updates, time) ==
  LET old == IF id \in DOMAIN store THEN store[id] ELSE [id |-> id]
      Lists == {"recentEvents", "riskFlags", "opportunityFlags"}
      set == [f \in DOMAIN updates \ {"id"} |->
                IF f \in Lists /\ updates[f] # <<>>
                THEN <<updates[f][1]>> \o ListOf(old, f)
                ELSE updates[f]]
  IN  PutItem(store, id, Merge(old, Merge(set, [lastUpdated |-> time])))

\* variant: the comparison reads the wrong field
HasFlag_WrongField(existingFlags, flag) ==
  \E i \in DOMAIN existingFlags :
    /\ existingFlags[i].type = flag.description
    /\ existingFlags[i].description = flag.description

\* getProject; <<>> stands for null
getProject(store, id) == IF id \in DOMAIN store THEN <<store[id]>> ELSE <<>>

\* createProject: a PutCommand of the whole item
createProject(store, project, time) ==
  PutItem(store, project.id, Merge(project, [createdAt |-> time, lastUpdated |-> time]))

\* updateProject: an UpdateCommand that sets lastUpdated and the supplied
\* fields; it creates the item when the key is absent
updateProject(store, id, updates, time) ==
  LET old == IF id \in DOMAIN store THEN store[id] ELSE [id |-> id]
      set == Merge(Pick(updates, DOMAIN updates \ {"id"}), [lastUpdated |-> time])
  IN  PutItem(store, id, Merge(old, set))

\* the entity of executeOperation's create branch
NewProject(entity) ==
  Merge(entity,
        [ status |-> "normal", healthScore |-> 70, newsSentiment |-> "neutral",
          recentEvents |-> <<>>, riskFlags |-> <<>>, opportunityFlags |-> <<>> ])

\* variant: the new event goes to the end of the list
addProjectEvent_Append(found, event, eventId) ==
  IF found = <<>> THEN <<>>
  ELSE LET newEvent == Merge(event, [id |-> eventId])
       IN  <<[recentEvents |->
                SubSeqTo(ListOf(found[1], "recentEvents") \o <<newEvent>>, MaxEvents)]>>

\* addProjectEvent after its getProject: the updates it writes, <<>> for none
addProjectEvent(found, event, eventId) ==
  IF found = <<>> THEN <<>>
  ELSE LET newEvent == Merge(event, [id |-> eventId])
       IN  <<[recentEvents |->
                SubSeqTo(<<newEvent>> \o ListOf(found[1], "recentEvents"), MaxEvents)]>>

\* existingFlags.some(f => f.type === flag.type && f.description === flag.description)
HasFlag(existingFlags, flag) ==
  \E i \in DOMAIN existingFlags :
    /\ existingFlags[i].type = flag.type
    /\ existingFlags[i].description = flag.description

\* addRiskFlag / addOpportunityFlag after their getProject: the updates they
\* write, <<>> for none
addFlag(found, field, flag, time) ==
  IF found = <<>> THEN <<>>
  ELSE LET newFlag == Merge(flag, [detectedAt |-> time])
           existingFlags == ListOf(found[1], field)
       IN  IF HasFlag(existingFlags, flag) THEN <<>>
           ELSE <<[x \in {field} |-> <<newFlag>> \o existingFlags]>>

\* variant: a create of an existing entity passes the name on as well
CreateUpdateFields_WithName == {"name", "description", "logo", "website", "twitter"}

\* the fields executeOperation's create branch updates on an existing entity
CreateUpdateFields == {"description", "logo", "website", "twitter"}

\* variant: the watch threshold is compared strictly
determineProjectStatus_Strict(healthScore, riskFlags, opportunityFlags) ==
  IF \E i \in DOMAIN riskFlags : riskFlags[i].severity = "critical" THEN "danger"
  ELSE IF (\E i \in DOMAIN riskFlags : riskFlags[i].severity = "high") \/ healthScore < 30
  THEN "danger"
  ELSE IF (\E i \in DOMAIN riskFlags : riskFlags[i].severity = "medium") \/ healthScore < 50
  THEN "warning"
  ELSE IF (\E i \in DOMAIN opportunityFlags : opportunityFlags[i].importance = "high")
          \/ healthScore > 80
  THEN "watch"
  ELSE "normal"

\* determineProjectStatus
determineProjectStatus(healthScore, riskFlags, opportunityFlags) ==
  LET hasCriticalRisk == \E i \in DOMAIN riskFlags : riskFlags[i].severity = "critical"
      hasHighRisk == \E i \in DOMAIN riskFlags : riskFlags[i].severity = "high"
      hasMediumRisk == \E i \in DOMAIN riskFlags : riskFlags[i].severity = "medium"
      hasHighOpportunity ==
        \E i \in DOMAIN opportunityFlags : opportunityFlags[i].importance = "high"
  IN  IF hasCriticalRisk THEN "danger"
      ELSE IF hasHighRisk \/ healthScore < 30 THEN "danger"
      ELSE IF hasMediumRisk \/ healthScore < 50 THEN "warning"
      ELSE IF hasHighOpportunity \/ healthScore >= 80 THEN "watch"
      ELSE "normal"

\* the entity an operation is about
TargetId(operation) ==
  IF operation.type = "create" THEN operation.entity.id ELSE operation.entityId

\* executeOperation after its getProject returned found: the write it goes
\* on to make, <<>> when it makes none
executeOperation(found, operation, eventId, time) ==
  LET Update(updates) ==
        IF updates = <<>> THEN <<>>
        ELSE <<[put |-> FALSE, id |-> TargetId(operation), item |-> updates[1]]>>
  IN  CASE operation.type = "create" ->
             IF found # <<>>
             THEN Update(<<Pick(operation.entity, CreateUpdateFields)>>)
             ELSE <<[put |-> TRUE, id |-> TargetId(operation),
                     item |-> NewProject(operation.entity)]>>
        [] operation.type = "update" ->
             IF found = <<>> THEN <<>> ELSE Update(<<operation.updates>>)
        [] operation.type = "add_event" ->
             Update(addProjectEvent(found, operation.event, eventId))
        [] operation.type = "add_risk_flag" ->
             Update(addFlag(found, "riskFlags", operation.flag, time))
        [] operation.type = "add_opportunity_flag" ->
             Update(addFlag(found, "opportunityFlags", operation.flag, time))
        [] OTHER -> <<>>

\* the projects table after the write w
ApplyWrite(store, w, time) ==
  IF w.put THEN createProject(store, w.item, time)
  ELSE updateProject(store, w.id, w.item, time)

RawOf(msg) == RawKey(msg.type, msg.infoId)

\* updateProjectInfoStatus / updateMarketInfoStatus (an UpdateCommand: it
\* creates the item when the key is absent)
updateInfoStatus(table, key, status, reasoning, sentiment, error, time) ==
  LET old == IF key \in DOMAIN table THEN table[key]
             ELSE [ id |-> key[2], source |-> "", title |-> <<>>, link |-> <<>>,
                    hash |-> <<>>, collectedAt |-> NoTime, processedStatus |-> "",
                    processedAt |-> NoTime, processError |-> "", aiReasoning |-> "",
                    sentiment |-> "" ]
  IN  PutItem(table, key,
        [old EXCEPT
           !.processedStatus = status,
           !.processedAt = time,
           !.aiReasoning = IF reasoning # "" THEN reasoning ELSE @,
           !.sentiment = IF key[1] = "market_info" /\ sentiment # "" THEN sentiment ELSE @,
           !.processError = IF error # "" THEN error ELSE @])

\* the event source mapping hands one queued message to an invocation
Receive(w) ==
  /\ workers[w].pc = "idle"
  /\ \E m \in DOMAIN queue :
       /\ queue' = BagRemove(queue, m)
       /\ workers' = [workers EXCEPT ![w] = [IdleWorker EXCEPT !.pc = "get", !.msg = m]]
  /\ UNCHANGED <<now, sources, feed, run, tasks, orphans, rawInfo, entities, llm, seeders, fetched>>

\* variant: the record is skipped when it is missing only
SkipsRecord_MissingOnly(table, key) == key \notin DOMAIN table

\* variant: the status compared is the wrong one
SkipsRecord_Failed(table, key) ==
  \/ key \notin DOMAIN table
  \/ table[key].processedStatus = "failed"

\* the early returns of processProjectInfo / processMarketInfo: the record is
\* missing or already processed
SkipsRecord(table, key) ==
  \/ key \notin DOMAIN table
  \/ table[key].processedStatus = "processed"

\* processProjectInfo / processMarketInfo: read the record
GetInfo(w) ==
  /\ workers[w].pc = "get"
  /\ LET key == RawOf(workers[w].msg)
     IN  IF SkipsRecord(rawInfo, key)
         THEN workers' = [workers EXCEPT
                ![w].pc = "return",
                ![w].status = IF key \in DOMAIN rawInfo THEN "processed" ELSE "missing"]
         ELSE workers' = [workers EXCEPT ![w].pc = "mark",
                                         ![w].status = rawInfo[key].processedStatus,
                                         ![w].hash = rawInfo[key].hash]
  /\ UNCHANGED <<now, sources, feed, run, tasks, orphans, rawInfo, queue, entities, llm, seeders, fetched>>

\* mark as processing
MarkProcessing(w) ==
  /\ workers[w].pc = "mark"
  /\ rawInfo' = updateInfoStatus(rawInfo, RawOf(workers[w].msg), "processing", "", "", "", now)
  /\ workers' = [workers EXCEPT ![w].pc = "llm"]
  /\ UNCHANGED <<now, sources, feed, run, tasks, orphans, queue, entities, llm, seeders, fetched>>

\* one round of analyzeWithTools: a request to the LLM and the handling of its
\* response, or the request raising
LlmRound(w) ==
  /\ workers[w].pc = "llm"
  /\ \/ \E response \in llm :
          LET calls == workers[w].llmCalls + 1
              content == Content(response, calls)
              messages == IF calls = 1 THEN <<UserPrompt>> ELSE workers[w].messages
              acc == ProcessToolCalls(workers[w], content)
          IN  workers' = [workers EXCEPT ![w] =
                [acc EXCEPT !.llmCalls = calls,
                            !.response = [content |-> content,
                                          stop_reason |-> response.stop_reason],
                            !.messages = PushMessages(messages, content),
                            !.pc = IF LoopContinues(response, calls) THEN "llm" ELSE "exec"]]
     \/ workers' = [workers EXCEPT ![w].llmCalls = @ + 1, ![w].pc = "catch",
                                   ![w].error = "LLM request failed"]
  /\ UNCHANGED <<now, sources, feed, run, tasks, orphans, rawInfo, queue, entities, llm, seeders, fetched>>

\* executeOperation up to its write: the getProject and what follows from it,
\* or the store raising
ExecuteOperation(w) ==
  /\ workers[w].pc = "exec"
  /\ workers[w].k <= Len(workers[w].ops)
  /\ LET operation == workers[w].ops[workers[w].k]
         found == getProject(entities, TargetId(operation))
         write == executeOperation(found, operation, <<w, workers[w].k, now>>, now)
     IN  \/ workers' = [workers EXCEPT
              ![w].pc = IF write = <<>> THEN "exec" ELSE "write",
              ![w].k = IF write = <<>> THEN @ + 1 ELSE @,
              ![w].write = write,
              ![w].entityId = IF operation.type = "create"
                                 /\ workers[w].msg.type = "project_info"
                              THEN TargetId(operation) ELSE @]
         \/ workers' = [workers EXCEPT ![w].pc = "catch", ![w].error = "store request failed"]
  /\ UNCHANGED <<now, sources, feed, run, tasks, orphans, rawInfo, queue, entities, llm, seeders, fetched>>

\* the PutCommand or UpdateCommand of the operation, or the store raising
WriteProject(w) ==
  /\ workers[w].pc = "write"
  /\ \/ /\ entities' = ApplyWrite(entities, workers[w].write[1], now)
        /\ workers' = [workers EXCEPT ![w].pc = "exec", ![w].k = @ + 1, ![w].write = <<>>]
     \/ /\ UNCHANGED entities
        /\ workers' = [workers EXCEPT ![w].pc = "catch", ![w].write = <<>>,
                                      ![w].error = "store request failed"]
  /\ UNCHANGED <<now, sources, feed, run, tasks, orphans, rawInfo, queue, llm, seeders, fetched>>

\* mark as processed with the analysis results
MarkProcessed(w) ==
  /\ workers[w].pc = "exec"
  /\ workers[w].k > Len(workers[w].ops)
  /\ \/ /\ rawInfo' = updateInfoStatus(rawInfo, RawOf(workers[w].msg), "processed",
                         workers[w].reasoning, workers[w].sentiment, "", now)
        /\ workers' = [workers EXCEPT ![w].pc = "return"]
     \/ /\ UNCHANGED rawInfo
        /\ workers' = [workers EXCEPT ![w].pc = "catch", ![w].error = "store request failed"]
  /\ UNCHANGED <<now, sources, feed, run, tasks, orphans, queue, entities, llm, seeders, fetched>>

\* the catch block: mark as failed with the error message, rethrow
MarkFailed(w) ==
  /\ workers[w].pc = "catch"
  /\ rawInfo' = updateInfoStatus(rawInfo, RawOf(workers[w].msg), "failed", "", "",
                                 workers[w].error, now)
  /\ workers' = [workers EXCEPT ![w].pc = "return", ![w].failed = TRUE]
  /\ UNCHANGED <<now, sources, feed, run, tasks, orphans, queue, entities, llm, seeders, fetched>>

\* the message goes back to the queue (TRUE) or is deleted (FALSE) when the
\* invocation ends: the handler settles every record with Promise.allSettled
\* and never throws, so the invocation succeeds whatever processRecord did
HandlerThrows(failed) == FALSE

\* handler returns; the queue keeps the message of a failed invocation only
HandlerReturn(w) ==
  /\ workers[w].pc = "return"
  /\ queue' = IF HandlerThrows(workers[w].failed) THEN BagAdd(queue, workers[w].msg) ELSE queue
  /\ workers' = [workers EXCEPT ![w] = IdleWorker]
  /\ UNCHANGED <<now, sources, feed, run, tasks, orphans, rawInfo, entities, llm, seeders, fetched>>

WorkerNext ==
  \E w \in Workers :
    \/ Receive(w) \/ GetInfo(w) \/ MarkProcessing(w) \/ LlmRound(w)
    \/ ExecuteOperation(w) \/ WriteProject(w) \/ MarkProcessed(w)
    \/ MarkFailed(w) \/ HandlerReturn(w)

\* -------------------------------------------------------- specifications
FixedSources ==
  [id \in SourceIds |->
     IF id = ProjectSource
     THEN createSourceConfig("project_info", "defillama", "api:rest", 1, 20, TRUE)
     ELSE createSourceConfig("market_info", "rss:coindesk", "rss", 1, 10, TRUE)]

\* a catalog holding one source
InitIngest ==
  /\ now = 0
  /\ \E id \in SourceIds :
       /\ sources = [x \in {id} |-> FixedSources[x]]
       /\ feed \in [{id} -> Feeds(id)]
  /\ run = IdleRun
  /\ tasks = <<>>
  /\ orphans = {}
  /\ rawInfo = EmptyFn
  /\ queue = EmptyFn
  /\ workers = [w \in Workers |-> IdleWorker]
  /\ entities = EmptyFn
  /\ llm = {}
  /\ seeders = [s \in Seeders |-> IdleSeeder]
  /\ fetched = <<>>

NextIngest == CollectorNext \/ OrphanNext \/ Tick \/ UpstreamChange

SpecIngest == InitIngest /\ [][NextIngest]_vars

\* the whole pipeline over a catalog holding the REST source
\* the responses of the LLM of the whole pipeline: one creates the entity and
\* reports, one does nothing
PipelineResponses ==
  { Response(<<"create_project", "report_analysis">>, "end_turn"),
    Response(<<>>, "end_turn") }

InitPipeline ==
  /\ now = 0
  /\ sources = [x \in {ProjectSource} |-> FixedSources[x]]
  /\ feed \in [{ProjectSource} -> Feeds(ProjectSource)]
  /\ run = IdleRun
  /\ tasks = <<>>
  /\ orphans = {}
  /\ rawInfo = EmptyFn
  /\ queue = EmptyFn
  /\ workers = [w \in Workers |-> IdleWorker]
  /\ entities = EmptyFn
  /\ llm = PipelineResponses
  /\ seeders = [s \in Seeders |-> IdleSeeder]
  /\ fetched = <<>>

Next == CollectorNext \/ WorkerNext \/ Tick \/ UpstreamChange

Spec == InitPipeline /\ [][Next]_vars

\* the scheduler over catalogs of every shape, the upstreams unchanged
SchedSources ==
  { [id \in SourceIds |->
       IF id = ProjectSource
       THEN createSourceConfig("project_info", "defillama", ct, iv[id], 20, en[id])
       ELSE createSourceConfig("market_info", "rss:coindesk", "rss", iv[id], 10, en[id])] :
    ct \in {"api:rest", "api:graphql"},
    iv \in [SourceIds -> {1, 2}],
    en \in [SourceIds -> BOOLEAN] }

InitSched ==
  /\ now = 0
  /\ sources \in SchedSources \cup {EmptyFn}
  /\ feed = [id \in SourceIds |-> IF id = ProjectSource THEN <<RestV1>> ELSE <<RssX>>]
  /\ run = IdleRun
  /\ tasks = <<>>
  /\ orphans = {}
  /\ rawInfo = EmptyFn
  /\ queue = EmptyFn
  /\ workers = [w \in Workers |-> IdleWorker]
  /\ entities = EmptyFn
  /\ llm = {}
  /\ seeders = [s \in Seeders |-> IdleSeeder]
  /\ fetched = <<>>

NextSched == CollectorNext \/ Tick \/ toggleSourceConfig

SpecSched == InitSched /\ [][NextSched]_vars

\* catalogs for the seeding: empty, full, or holding one entry only
SeedCatalogs ==
  {EmptyFn} \cup SchedSources
  \cup { [id \in {only} |-> c[id]] : c \in SchedSources, only \in SourceIds }

InitSeed ==
  /\ now = 0
  /\ sources \in SeedCatalogs
  /\ feed = [id \in SourceIds |-> IF id = ProjectSource THEN <<RestV1>> ELSE <<RssX>>]
  /\ run = IdleRun
  /\ tasks = <<>>
  /\ orphans = {}
  /\ rawInfo = EmptyFn
  /\ queue = EmptyFn
  /\ workers = [w \in Workers |-> IdleWorker]
  /\ entities = EmptyFn
  /\ llm = {}
  /\ seeders = [s \in Seeders |-> IdleSeeder]
  /\ fetched = <<>>

NextSeed == \E s \in Seeders : SeedScan(s) \/ SeedSave(s) \/ SeedReturn(s)

SpecSeed == InitSeed /\ [][NextSeed]_vars

\* raw records a REST upstream can serve
RawSamples ==
  { [id |-> Str("acme"), name |-> Str("ACME"), meta |-> Obj([date |-> Str("2024-01-01")])],
    [name |-> Str("ACME")],
    [id |-> Num("0"), name |-> Str("beta"), meta |-> Obj([date |-> Str("soon")])],
    [id |-> Str("beta"), meta |-> Str("soon")],
    [id |-> Str("beta"), name |-> Null, meta |-> Obj([date |-> Null])],
    [slug |-> Str("acme"), symbol |-> Str("acme")] }

\* endpoint mappings: string rules, rules with a default or a transform
Mappings ==
  { [id |-> [path |-> <<"id">>], name |-> [path |-> <<"name">>]],
    [id |-> [path |-> <<"id">>],
     slug |-> [source |-> <<"slug">>, default |-> Str("")],
     name |-> [source |-> <<"name">>, transform |-> "lowercase", default |-> Str("n/a")],
     publishedAt |-> [source |-> <<"meta", "date">>, transform |-> "date"]],
    [id |-> [source |-> <<"id">>, transform |-> "number"],
     symbol |-> [source |-> <<"symbol">>, transform |-> "uppercase"]] }

\* values of Math.random(), as strings
Randoms == {"0.25", "0.75"}

\* one call of fetchEndpoint on what the upstream serves
FetchEndpoint ==
  /\ Len(fetched) < MaxFetches
  /\ \E mapping \in Mappings :
       \E randoms \in [DOMAIN feed[ProjectSource] -> Randoms] :
         fetched' = Append(fetched,
                      [ mapping |-> mapping,
                        data |-> feed[ProjectSource],
                        result |-> fetchEndpoint(FixedSources[ProjectSource], mapping,
                                                 feed[ProjectSource], randoms, now) ])
  /\ UNCHANGED <<now, sources, feed, run, tasks, orphans, rawInfo, queue, workers,
                 entities, llm, seeders>>

InitMapping ==
  /\ now = 0
  /\ sources = [x \in {ProjectSource} |-> FixedSources[x]]
  /\ \E r1 \in RawSamples : \E r2 \in RawSamples :
       feed \in [{ProjectSource} -> {<<r1>>, <<r1, r2>>}]
  /\ run = IdleRun
  /\ tasks = <<>>
  /\ orphans = {}
  /\ rawInfo = EmptyFn
  /\ queue = EmptyFn
  /\ workers = [w \in Workers |-> IdleWorker]
  /\ entities = EmptyFn
  /\ llm = {}
  /\ seeders = [s \in Seeders |-> IdleSeeder]
  /\ fetched = <<>>

NextMapping == FetchEndpoint \/ Tick

SpecMapping == InitMapping /\ [][NextMapping]_vars

\* ------------------------------------------- REST collector, HTTP level
\* fetchWithRetry(url, headers, method, retries = 3)
retries == 3

\* what one HTTP exchange can give: a 2xx response with a JSON body, a 2xx
\* response whose body response.json() rejects, a 429, any other non-2xx
HttpResponses == {"200", "200-not-json", "429", "500"}

\* the wait after a 429 in iteration i of the loop (i counts from 0)
RateLimitWait(i) == Min(60000, 1000 * 2^(i + 1))

\* the wait in the catch block of iteration i
BackoffWait(i) == 1000 * (i + 1)

\* variant: a 429 is always followed by another request
fetchWithRetryStep_RateLimitRetries(i, response) ==
  IF response = "429"
  THEN [wait |-> RateLimitWait(i), then |-> "retry", error |-> ""]
  ELSE IF response = "200"
  THEN [wait |-> 0, then |-> "return", error |-> ""]
  ELSE IF i = retries - 1
  THEN [wait |-> 0, then |-> "raise", error |-> response]
  ELSE [wait |-> BackoffWait(i), then |-> "retry", error |-> ""]

\* one iteration of the loop of fetchWithRetry: what the call does after the
\* response of iteration i
fetchWithRetryStep(i, response) ==
  IF response = "429"
  THEN [ wait |-> RateLimitWait(i),
         then |-> IF i + 1 < retries THEN "retry" ELSE "raise",
         error |-> "Max retries exceeded" ]
  ELSE IF response = "200"
  THEN [wait |-> 0, then |-> "return", error |-> ""]
  ELSE IF i = retries - 1
  THEN [wait |-> 0, then |-> "raise", error |-> response]
  ELSE [wait |-> BackoffWait(i), then |-> "retry", error |-> ""]

\* the endpoints of the REST source: a path and a field mapping
RestEndpoints ==
  << [ path |-> "/projects",
       mapping |-> [id |-> [path |-> <<"id">>],
                    name |-> [source |-> <<"name">>, default |-> Str("n/a")],
                    publishedAt |-> [source |-> <<"meta", "date">>, transform |-> "date"]] ],
     [ path |-> "/trending",
       mapping |-> [id |-> [path |-> <<"id">>], name |-> [path |-> <<"name">>]] ] >>

\* JSON bodies an endpoint can serve
RestBodies ==
  { <<[id |-> Str("acme"), name |-> Str("ACME"), meta |-> Obj([date |-> Str("2024-01-01")])]>>,
    <<[id |-> Str("beta"), name |-> Str("beta")],
      [id |-> Str("acme"), meta |-> Obj([date |-> Null])]>> }

\* RestApiCollector.collect before its loop
IdleCollect == [pc |-> "idle", endpoint |-> 1, i |-> 0, allItems |-> <<>>, calls |-> <<>>,
                responses |-> <<>>, waits |-> <<>>, result |-> <<>>]

\* variant: the failure of an endpoint ends the collection
collectAfterEndpoint_Aborts(c, call) ==
  [c EXCEPT !.calls = Append(@, call),
            !.allItems = @ \o call.items,
            !.pc = IF call.outcome = "raised" THEN "return" ELSE "delay",
            !.responses = <<>>, !.waits = <<>>, !.i = 0]

\* collect, after fetchEndpoint returned or raised: the items are pushed, an
\* exception is logged, and the loop goes on
collectAfterEndpoint(c, call) ==
  [c EXCEPT !.calls = Append(@, call),
            !.allItems = @ \o call.items,
            !.pc = "delay",
            !.responses = <<>>, !.waits = <<>>, !.i = 0]

\* collect is called for the REST source
RestCollectStart ==
  /\ fetched.pc = "idle"
  /\ fetched' = [fetched EXCEPT !.pc = "request"]
  /\ UNCHANGED <<now, sources, feed, run, tasks, orphans, rawInfo, queue, workers,
                 entities, llm, seeders>>

\* one iteration of fetchWithRetry for the current endpoint: the request, the
\* wait that follows it and, on a 2xx response, the rest of fetchEndpoint
RestRequest ==
  /\ fetched.pc = "request"
  /\ \E response \in HttpResponses :
       LET step == fetchWithRetryStep(fetched.i, response)
           responses == Append(fetched.responses, response)
           waits == IF step.wait > 0 THEN Append(fetched.waits, step.wait) ELSE fetched.waits
           data == feed[fetched.endpoint]
           mapped == fetchEndpoint(FixedSources[ProjectSource],
                                   RestEndpoints[fetched.endpoint].mapping, data,
                                   [k \in DOMAIN data |-> "0.25"], now)
           call == [ endpoint |-> fetched.endpoint, responses |-> responses, waits |-> waits,
                     outcome |-> IF step.then = "raise" \/ mapped.threw
                                 THEN "raised" ELSE "returned",
                     fetch |-> step.then,
                     body |-> IF step.then = "return" THEN data ELSE <<>>,
                     items |-> IF step.then = "return" /\ ~mapped.threw
                               THEN mapped.items ELSE <<>> ]
       IN  fetched' = IF step.then = "retry"
                      THEN [fetched EXCEPT !.i = @ + 1, !.responses = responses,
                                           !.waits = waits]
                      ELSE collectAfterEndpoint(fetched, call)
  /\ UNCHANGED <<now, sources, feed, run, tasks, orphans, rawInfo, queue, workers,
                 entities, llm, seeders>>

\* the end of one iteration of the loop over config.endpoints: the delay
\* between requests, then the next endpoint or the end of the loop
RestNextEndpoint ==
  /\ fetched.pc = "delay"
  /\ fetched' = IF fetched.endpoint < Len(RestEndpoints)
                THEN [fetched EXCEPT !.endpoint = @ + 1, !.pc = "request"]
                ELSE [fetched EXCEPT !.pc = "return"]
  /\ UNCHANGED <<now, sources, feed, run, tasks, orphans, rawInfo, queue, workers,
                 entities, llm, seeders>>

\* collect returns successResult(allItems)
RestCollectReturn ==
  /\ fetched.pc = "return"
  /\ fetched' = [fetched EXCEPT !.pc = "done",
                                !.result = [success |-> TRUE, items |-> fetched.allItems]]
  /\ UNCHANGED <<now, sources, feed, run, tasks, orphans, rawInfo, queue, workers,
                 entities, llm, seeders>>

InitRest ==
  /\ now \in 0..1
  /\ sources = [x \in {ProjectSource} |-> FixedSources[x]]
  /\ feed \in [DOMAIN RestEndpoints -> RestBodies]
  /\ run = IdleRun
  /\ tasks = <<>>
  /\ orphans = {}
  /\ rawInfo = EmptyFn
  /\ queue = EmptyFn
  /\ workers = [w \in Workers |-> IdleWorker]
  /\ entities = EmptyFn
  /\ llm = {}
  /\ seeders = [s \in Seeders |-> IdleSeeder]
  /\ fetched = IdleCollect

NextRest == RestCollectStart \/ RestRequest \/ RestNextEndpoint \/ RestCollectReturn

SpecRest == InitRest /\ [][NextRest]_vars

\* ------------------------------------------ a result of more than a batch
\* what the REST upstream serves: one record more than a batch holds
LargeFeed == [i \in 1..(batchSize + 1) |-> [id |-> <<96 + i>>, data |-> <<65>>]]

\* the records of LargeFeed with these indexes, as stored by an earlier run
StoredBefore(S) ==
  [k \in {RawKey("project_info", generateProjectInfoId("defillama", LargeFeed[i].id)) : i \in S}
     |-> CHOOSE r \in {RestItem(FixedSources[ProjectSource], LargeFeed[i], 0) : i \in S} :
           r.id = k[2]]

InitBatches ==
  /\ now = 0
  /\ sources = [x \in {ProjectSource} |-> FixedSources[x]]
  /\ feed \in [{ProjectSource} -> {SubSeqTo(LargeFeed, batchSize), LargeFeed}]
  /\ run = IdleRun
  /\ tasks = <<>>
  /\ orphans = {}
  /\ rawInfo \in {EmptyFn, StoredBefore({1, 2, batchSize + 1})}
  /\ queue = EmptyFn
  /\ workers = [w \in Workers |-> IdleWorker]
  /\ entities = EmptyFn
  /\ llm = {}
  /\ seeders = [s \in Seeders |-> IdleSeeder]
  /\ fetched = <<>>

\* The item tasks of a batch work on different records, so their steps
\* commute: one order of the responses is followed, that of the items, and
\* the rejection of Promise.all is handled before any later response.
InItemOrder ==
  \A i, j \in DOMAIN tasks :
    (i < j /\ tasks[j].pc # "check") => tasks[i].pc \in TerminalPc

NextBatches ==
  /\ CollectorNext
  /\ InItemOrder'
  /\ (\E i \in DOMAIN tasks : tasks[i].pc = "threw") => tasks' = <<>>

SpecBatches == InitBatches /\ [][NextBatches]_vars

\* -------------------------------------------------- importance score
\* variant: the share of the identified projects is not capped
calculateImportanceScore_Uncapped(output) ==
  LET eventType == output.analysis.eventType
      sentiment == output.analysis.sentiment
      s1 == 50 + (IF eventType = "security" THEN 30 ELSE 0)
      s2 == s1 + (IF eventType = "funding" THEN 20 ELSE 0)
      s3 == s2 + (IF eventType = "regulatory" THEN 25 ELSE 0)
      s4 == s3 + (IF eventType = "legal" THEN 20 ELSE 0)
      s5 == s4 + (IF sentiment = "negative" THEN 15 ELSE 0)
      s6 == s5 + (IF sentiment = "positive" THEN 5 ELSE 0)
      projectCount == IF output.analysis.identifiedProjects = Undefined THEN 0
                      ELSE Len(output.analysis.identifiedProjects.f)
      s7 == s6 + projectCount * 5
      riskOps == Cardinality({i \in DOMAIN output.operations :
                                output.operations[i].type = "add_risk_flag"})
      oppOps == Cardinality({i \in DOMAIN output.operations :
                               output.operations[i].type = "add_opportunity_flag"})
      score == s7 + (riskOps + oppOps) * 5
  IN  Min(IF score > 0 THEN score ELSE 0, 100)

\* calculateImportanceScore(output)
calculateImportanceScore(output) ==
  LET eventType == output.analysis.eventType
      sentiment == output.analysis.sentiment
      s1 == 50 + (IF eventType = "security" THEN 30 ELSE 0)
      s2 == s1 + (IF eventType = "funding" THEN 20 ELSE 0)
      s3 == s2 + (IF eventType = "regulatory" THEN 25 ELSE 0)
      s4 == s3 + (IF eventType = "legal" THEN 20 ELSE 0)
      s5 == s4 + (IF sentiment = "negative" THEN 15 ELSE 0)
      s6 == s5 + (IF sentiment = "positive" THEN 5 ELSE 0)
      projectCount == IF output.analysis.identifiedProjects = Undefined THEN 0
                      ELSE Len(output.analysis.identifiedProjects.f)
      s7 == s6 + Min(projectCount * 5, 15)
      riskOps == Cardinality({i \in DOMAIN output.operations :
                                output.operations[i].type = "add_risk_flag"})
      oppOps == Cardinality({i \in DOMAIN output.operations :
                               output.operations[i].type = "add_opportunity_flag"})
      score == s7 + (riskOps + oppOps) * 5
  IN  Min(IF score > 0 THEN score ELSE 0, 100)

\* analysis outputs: the event types and sentiments of the report_analysis
\* tool and values outside them, up to MaxProjects identified projects (or
\* none reported), up to MaxOperations operations
EventTypes == {"security", "funding", "regulatory", "legal", "partnership", "undefined"}
Sentiments == {"negative", "positive", "neutral", "undefined"}
OperationTypes == {"add_risk_flag", "add_opportunity_flag", "add_event"}

AnalysisOutputs ==
  { [ analysis |-> [eventType |-> e, sentiment |-> s, identifiedProjects |-> p],
      operations |-> [i \in DOMAIN o |-> [type |-> o[i]]] ] :
      e \in EventTypes, s \in Sentiments,
      p \in {Undefined}
             \cup {[t |-> "array", v |-> "", f |-> [i \in 1..n |-> "acme"]] : n \in 0..MaxProjects},
      o \in UNION {[1..k -> OperationTypes] : k \in 0..MaxOperations} }

\* processMarketInfo stores the score of the output of the analysis
ScoreOutput ==
  /\ fetched = <<>>
  /\ \E output \in AnalysisOutputs :
       fetched' = [output |-> output, importanceScore |-> calculateImportanceScore(output)]
  /\ UNCHANGED <<now, sources, feed, run, tasks, orphans, rawInfo, queue, workers,
                 entities, llm, seeders>>

InitScore ==
  /\ now = 0
  /\ sources = FixedSources
  /\ feed = [id \in SourceIds |-> <<>>]
  /\ run = IdleRun
  /\ tasks = <<>>
  /\ orphans = {}
  /\ rawInfo = EmptyFn
  /\ queue = EmptyFn
  /\ workers = [w \in Workers |-> IdleWorker]
  /\ entities = EmptyFn
  /\ llm = {}
  /\ seeders = [s \in Seeders |-> IdleSeeder]
  /\ fetched = <<>>

NextScore == ScoreOutput

SpecScore == InitScore /\ [][NextScore]_vars

\* one collected record waiting in the queue, every kind of LLM backend
PendingRecord == RestItem(FixedSources[ProjectSource], RestV1, 0)
PendingMessage == [type |-> "project_info", infoId |-> PendingRecord.id]

NeverReports ==
  { Response(<<"create_project">>, "tool_use"),
    Response(<<"add_event">>, "tool_use"),
    Response(<<"search_web">>, "tool_use") }

LlmBackends ==
  { AllResponses, BriefResponses, NeverReports,
    NeverReports \cup {Response(<<"add_event">>, "end_turn")} }

InitLoop ==
  /\ now = 0
  /\ sources = [x \in {ProjectSource} |-> FixedSources[x]]
  /\ feed = [x \in {ProjectSource} |-> <<RestV1>>]
  /\ run = IdleRun
  /\ tasks = <<>>
  /\ orphans = {}
  /\ rawInfo = PutItem(EmptyFn, RawKey("project_info", PendingRecord.id), PendingRecord)
  /\ queue = BagAdd(EmptyFn, PendingMessage)
  /\ workers = [w \in Workers |-> IdleWorker]
  /\ entities = EmptyFn
  /\ llm \in LlmBackends
  /\ seeders = [s \in Seeders |-> IdleSeeder]
  /\ fetched = <<>>

NextLoop == WorkerNext

SpecLoop == InitLoop /\ [][NextLoop]_vars

\* the status derivation applied to entities of every shape
ScoreSamples == {0, 29, 30, 49, 50, 79, 80, 100}

SeqsUpTo(S, n) == UNION {[1..k -> S] : k \in 0..n}

RiskFlagOf(severity) ==
  [type |-> "security_breach", severity |-> severity, description |-> severity, detectedAt |-> 0]

OpportunityFlagOf(importance) ==
  [type |-> "listing", importance |-> importance, description |-> importance, detectedAt |-> 0]

\* an entity as executeOperation's create branch stores it, with a score and flags
EntityWith(score, severities, importances) ==
  Merge(createProject(EmptyFn,
                      NewProject([id |-> "acme", name |-> "Acme", category |-> "defi"]),
                      0)["acme"],
        [ healthScore |-> score,
          riskFlags |-> [i \in DOMAIN severities |-> RiskFlagOf(severities[i])],
          opportunityFlags |-> [i \in DOMAIN importances |-> OpportunityFlagOf(importances[i])] ])

\* the status of an entity is set to determineProjectStatus of its score and flags
DeriveStatus ==
  /\ \E id \in DOMAIN entities :
       entities' = [entities EXCEPT ![id].status =
         determineProjectStatus(entities[id].healthScore, entities[id].riskFlags,
                                entities[id].opportunityFlags)]
  /\ UNCHANGED <<now, sources, feed, run, tasks, orphans, rawInfo, queue, workers, llm, seeders, fetched>>

InitStatus ==
  /\ now = 0
  /\ sources = EmptyFn
  /\ feed = EmptyFn
  /\ run = IdleRun
  /\ tasks = <<>>
  /\ orphans = {}
  /\ rawInfo = EmptyFn
  /\ queue = EmptyFn
  /\ workers = [w \in Workers |-> IdleWorker]
  /\ \E score \in ScoreSamples :
     \E severities \in SeqsUpTo({"low", "medium", "high", "critical"}, MaxRiskFlags) :
     \E importances \in SeqsUpTo({"low", "medium", "high"}, MaxOppFlags) :
       entities = [id \in {"acme"} |-> EntityWith(score, severities, importances)]
  /\ llm = {}
  /\ seeders = [s \in Seeders |-> IdleSeeder]
  /\ fetched = <<>>

NextStatus == DeriveStatus

SpecStatus == InitStatus /\ [][NextStatus]_vars

\* deleteProject (administrative surface)
deleteProject ==
  /\ \E id \in DOMAIN entities :
       entities' = [x \in DOMAIN entities \ {id} |-> entities[x]]
  /\ UNCHANGED <<now, sources, feed, run, tasks, orphans, rawInfo, queue, workers, llm, seeders, fetched>>

\* two collected records waiting in the queue, an LLM that answers each in
\* one round with entity operations on "acme"
PendingNews == RssItem(FixedSources[MarketSource], RssX, 0)
NewsMessage == [type |-> "market_info", infoId |-> PendingNews.id]

UpdateScore(score) ==
  ToolUse("update_project", [entityId |-> "acme", healthScore |-> score])

OtherRiskFlag ==
  ToolUse("add_risk_flag", [entityId |-> "acme", flagType |-> "exploit",
                            severity |-> "low", description |-> "bug"])

EntityResponses ==
  { [tools |-> tools, stop_reason |-> "end_turn"] :
      tools \in { <<ToolCall("create_project")>>,
                  <<UpdateScore(150)>>,
                  <<ToolCall("add_event")>>,
                  <<ToolCall("add_risk_flag"), ToolCall("report_analysis")>>,
                  <<OtherRiskFlag>>,
                  <<ToolCall("add_opportunity_flag")>> } }

AcmeEntity == Merge(EntityWith(70, <<>>, <<>>), [name |-> "Acme Labs"])

InitEntities ==
  /\ now = 0
  /\ sources = FixedSources
  /\ feed = [id \in SourceIds |-> IF id = ProjectSource THEN <<RestV1>> ELSE <<RssX>>]
  /\ run = IdleRun
  /\ tasks = <<>>
  /\ orphans = {}
  /\ rawInfo = PutItem(PutItem(EmptyFn, RawKey("project_info", PendingRecord.id), PendingRecord),
                       RawKey("market_info", PendingNews.id), PendingNews)
  /\ queue = BagAdd(BagAdd(EmptyFn, PendingMessage), NewsMessage)
  /\ workers = [w \in Workers |-> IdleWorker]
  /\ entities \in {EmptyFn, [id \in {"acme"} |-> AcmeEntity]}
  /\ llm = EntityResponses
  /\ seeders = [s \in Seeders |-> IdleSeeder]
  /\ fetched = <<>>

NextEntities == WorkerNext \/ deleteProject

SpecEntities == InitEntities /\ [][NextEntities]_vars

\* one collected record waiting in the queue, an LLM that asks for
\* EventsPerRound events in every round
EventBurst ==
  [tools |-> [i \in 1..EventsPerRound |-> ToolCall("add_event")], stop_reason |-> "tool_use"]

InitEvents ==
  /\ now = 0
  /\ sources = [x \in {ProjectSource} |-> FixedSources[x]]
  /\ feed = [x \in {ProjectSource} |-> <<RestV1>>]
  /\ run = IdleRun
  /\ tasks = <<>>
  /\ orphans = {}
  /\ rawInfo = PutItem(EmptyFn, RawKey("project_info", PendingRecord.id), PendingRecord)
  /\ queue = BagAdd(EmptyFn, PendingMessage)
  /\ workers = [w \in Workers |-> IdleWorker]
  /\ entities \in {EmptyFn, [id \in {"acme"} |-> AcmeEntity]}
  /\ llm = {EventBurst}
  /\ seeders = [s \in Seeders |-> IdleSeeder]
  /\ fetched = <<>>

NextEvents == WorkerNext

SpecEvents == InitEvents /\ [][NextEvents]_vars

\* the receive count the queue keeps for a message (1 on the first delivery)
ReceiveCount(msg) == IF "receiveCount" \in DOMAIN msg THEN msg.receiveCount ELSE 1

\* the processing queue is a standard queue: it can deliver again a message
\* that an invocation still holds (a duplicate delivery, or the visibility
\* timeout running out), MaxDeliveries times at most
Redeliver(w) ==
  /\ workers[w].pc # "idle"
  /\ ReceiveCount(workers[w].msg) < MaxDeliveries
  /\ LET again == Merge(workers[w].msg, [receiveCount |-> ReceiveCount(workers[w].msg) + 1])
     IN  /\ queue' = BagAdd(queue, again)
         /\ workers' = [workers EXCEPT ![w].msg = again]
  /\ UNCHANGED <<now, sources, feed, run, tasks, orphans, rawInfo, entities, llm, seeders, fetched>>

\* one collected record waiting in the queue, an existing entity, an LLM that
\* asks for one event and ends its turn
InitDelivery ==
  /\ now = 0
  /\ sources = [x \in {ProjectSource} |-> FixedSources[x]]
  /\ feed = [x \in {ProjectSource} |-> <<RestV1>>]
  /\ run = IdleRun
  /\ tasks = <<>>
  /\ orphans = {}
  /\ rawInfo = PutItem(EmptyFn, RawKey("project_info", PendingRecord.id), PendingRecord)
  /\ queue = BagAdd(EmptyFn, PendingMessage)
  /\ workers = [w \in Workers |-> IdleWorker]
  /\ entities = [id \in {"acme"} |-> AcmeEntity]
  /\ llm = {Response(<<"add_event">>, "end_turn")}
  /\ seeders = [s \in Seeders |-> IdleSeeder]
  /\ fetched = <<>>

NextDelivery == WorkerNext \/ \E w \in Workers : Redeliver(w)

SpecDelivery == InitDelivery /\ [][NextDelivery]_vars

\* one collected record waiting in the queue, no entity yet, an LLM that
\* answers with several tool calls, with an unknown tool, or with none
ToolResponses ==
  { Response(<<>>, "max_tokens"),
    Response(<<>>, "end_turn"),
    Response(<<"create_project", "add_event">>, "tool_use"),
    Response(<<"report_analysis">>, "tool_use"),
    Response(<<"search_web", "add_risk_flag">>, "tool_use"),
    Response(<<"add_event", "report_analysis">>, "end_turn"),
    Response(<<"add_opportunity_flag">>, "end_turn") }

InitTools ==
  /\ now = 0
  /\ sources = [x \in {ProjectSource} |-> FixedSources[x]]
  /\ feed = [x \in {ProjectSource} |-> <<RestV1>>]
  /\ run = IdleRun
  /\ tasks = <<>>
  /\ orphans = {}
  /\ rawInfo = PutItem(EmptyFn, RawKey("project_info", PendingRecord.id), PendingRecord)
  /\ queue = BagAdd(EmptyFn, PendingMessage)
  /\ workers = [w \in Workers |-> IdleWorker]
  /\ entities = EmptyFn
  /\ llm = ToolResponses
  /\ seeders = [s \in Seeders |-> IdleSeeder]
  /\ fetched = <<>>

NextTools == WorkerNext

SpecTools == InitTools /\ [][NextTools]_vars

\* ------------------------------------- a record re-saved while in process
\* an earlier run stored the record and sent its message; the upstream now
\* serves the record with changed content and the source is due
InitResave ==
  /\ now = 1
  /\ sources = [x \in {ProjectSource} |-> FixedSources[x]]
  /\ feed = [x \in {ProjectSource} |-> <<RestV2>>]
  /\ run = IdleRun
  /\ tasks = <<>>
  /\ orphans = {}
  /\ rawInfo = PutItem(EmptyFn, RawKey("project_info", PendingRecord.id), PendingRecord)
  /\ queue = BagAdd(EmptyFn, PendingMessage)
  /\ workers = [w \in Workers |-> IdleWorker]
  /\ entities = EmptyFn
  /\ llm = PipelineResponses
  /\ seeders = [s \in Seeders |-> IdleSeeder]
  /\ fetched = <<>>

NextResave == CollectorNext \/ WorkerNext

SpecResave == InitResave /\ [][NextResave]_vars

\* --------------------------------------- a resolution of two operations
\* one collected record waiting in the queue, an existing entity, an LLM that
\* asks for an event and a risk flag; the queue can deliver the message again
InitRetry ==
  /\ now = 0
  /\ sources = [x \in {ProjectSource} |-> FixedSources[x]]
  /\ feed = [x \in {ProjectSource} |-> <<RestV1>>]
  /\ run = IdleRun
  /\ tasks = <<>>
  /\ orphans = {}
  /\ rawInfo = PutItem(EmptyFn, RawKey("project_info", PendingRecord.id), PendingRecord)
  /\ queue = BagAdd(EmptyFn, PendingMessage)
  /\ workers = [w \in Workers |-> IdleWorker]
  /\ entities = [id \in {"acme"} |-> AcmeEntity]
  /\ llm = {Response(<<"add_event", "add_risk_flag">>, "end_turn")}
  /\ seeders = [s \in Seeders |-> IdleSeeder]
  /\ fetched = <<>>

NextRetry == WorkerNext \/ \E w \in Workers : Redeliver(w)

SpecRetry == InitRetry /\ [][NextRetry]_vars

\* ------------------------------------------ one record twice in a result
\* the upstream serves the same record twice in one response (the same item
\* twice in one feed): two items with one id and one content hash
InitTwins ==
  /\ now = 0
  /\ \E id \in SourceIds :
       /\ sources = [x \in {id} |-> FixedSources[x]]
       /\ feed = [x \in {id} |-> IF id = ProjectSource THEN <<RestV1, RestV1>>
                                 ELSE <<RssX, RssX>>]
  /\ run = IdleRun
  /\ tasks = <<>>
  /\ orphans = {}
  /\ rawInfo = EmptyFn
  /\ queue = EmptyFn
  /\ workers = [w \in Workers |-> IdleWorker]
  /\ entities = EmptyFn
  /\ llm = {}
  /\ seeders = [s \in Seeders |-> IdleSeeder]
  /\ fetched = <<>>

NextTwins == CollectorNext \/ OrphanNext

SpecTwins == InitTwins /\ [][NextTwins]_vars

\* ------------------------------------- single-source collection request
\* The request handler runs in an invocation of its own, next to the
\* scheduled run; its position is kept in fetched.  cfg is the config it
\* read, stats the statistics updateSourceCollectionStatus read.
IdleManual == [pc |-> "idle", cfg |-> <<>>, status |-> "", error |-> "", saved |-> 0,
               stats |-> EmptyStats, runs |-> 0]

RECURSIVE SendAll(_, _)
SendAll(q, messages) ==
  IF messages = <<>> THEN q ELSE SendAll(BagAdd(q, Head(messages)), Tail(messages))

\* handleSingleSourceCollection up to collectFromSource: the id of the path
\* is looked up; an unknown id is answered with 404
HandleSingleSourceCollection ==
  /\ fetched.pc = "idle"
  /\ fetched.runs < MaxManualRuns
  /\ \E id \in SourceIds :
       fetched' = IF id \notin DOMAIN sources
                  THEN [fetched EXCEPT !.runs = @ + 1]
                  ELSE [IdleManual EXCEPT !.pc = "collect", !.cfg = sources[id],
                                          !.runs = fetched.runs]
  /\ UNCHANGED <<now, sources, feed, run, tasks, orphans, rawInfo, queue, workers,
                 entities, llm, seeders>>

\* collectFromSource of the request, up to updateSourceCollectionStatus: the
\* collector is invoked and the items of the result (one batch) are checked
\* against the store, written and sent; or a write raises
ManualCollect ==
  /\ fetched.pc = "collect"
  /\ LET cfg == fetched.cfg
     IN  IF ~isCollectorSupported(cfg.collectorType)
         THEN /\ fetched' = [IdleManual EXCEPT !.runs = fetched.runs + 1]
              /\ UNCHANGED <<rawInfo, queue>>
         ELSE \E fetchOk \in BOOLEAN :
                LET result == Collect(cfg, feed[cfg.id], fetchOk, now)
                    kept == {i \in DOMAIN result.items :
                               ~isDuplicate([type |-> cfg.type, info |-> result.items[i]], TRUE)}
                    keys == {RawKey(cfg.type, result.items[i].id) : i \in kept}
                    order == CHOOSE q \in [1..Cardinality(kept) -> kept] :
                               \A i, j \in 1..Cardinality(kept) : i < j => q[i] < q[j]
                IN  IF ~result.success
                    THEN /\ fetched' = [fetched EXCEPT !.pc = "read", !.status = "failed",
                                                       !.error = result.error]
                         /\ UNCHANGED <<rawInfo, queue>>
                    ELSE \/ /\ rawInfo' =
                                 [k \in DOMAIN rawInfo \cup keys |->
                                    IF k \in keys
                                    THEN result.items[CHOOSE i \in kept :
                                           /\ RawKey(cfg.type, result.items[i].id) = k
                                           /\ \A j \in kept :
                                                RawKey(cfg.type, result.items[j].id) = k
                                                => j <= i]
                                    ELSE rawInfo[k]]
                            /\ queue' = SendAll(queue,
                                 [n \in 1..Cardinality(kept) |->
                                    [type |-> cfg.type, infoId |-> result.items[order[n]].id]])
                            /\ fetched' = [fetched EXCEPT !.pc = "read", !.status = "success",
                                                          !.saved = Cardinality(kept)]
                         \/ /\ result.items # <<>>
                            /\ fetched' = [fetched EXCEPT !.pc = "read", !.status = "failed",
                                                          !.error = "write or send failed"]
                            /\ UNCHANGED <<rawInfo, queue>>
  /\ UNCHANGED <<now, sources, feed, run, tasks, orphans, workers, entities, llm, seeders>>

\* updateSourceCollectionStatus of the request, its getSourceConfig
ManualReadStatus ==
  /\ fetched.pc = "read"
  /\ fetched' = IF fetched.cfg.id \notin DOMAIN sources
                THEN [IdleManual EXCEPT !.runs = fetched.runs + 1]
                ELSE [fetched EXCEPT !.pc = "write", !.stats = sources[fetched.cfg.id].stats]
  /\ UNCHANGED <<now, sources, feed, run, tasks, orphans, rawInfo, queue, workers,
                 entities, llm, seeders>>

\* updateSourceCollectionStatus of the request, its UpdateCommand: the
\* statistics computed from those that were read replace the stored ones
ManualWriteStatus ==
  /\ fetched.pc = "write"
  /\ LET id == fetched.cfg.id
         stored == IF id \in DOMAIN sources THEN sources[id] ELSE fetched.cfg
         asRead == [x \in {id} |-> [stored EXCEPT !.stats = fetched.stats]]
         written == updateSourceCollectionStatus(asRead, id, fetched.status, fetched.error,
                                                 fetched.saved, now)[id]
     IN  sources' = [x \in DOMAIN sources \cup {id} |-> IF x = id THEN written ELSE sources[x]]
  /\ fetched' = [IdleManual EXCEPT !.pc = "done", !.cfg = fetched.cfg,
                                   !.status = fetched.status, !.saved = fetched.saved,
                                   !.stats = fetched.stats, !.runs = fetched.runs]
  /\ UNCHANGED <<now, feed, run, tasks, orphans, rawInfo, queue, workers,
                 entities, llm, seeders>>

\* the response of the request is sent
ManualReturn ==
  /\ fetched.pc = "done"
  /\ fetched' = [IdleManual EXCEPT !.runs = fetched.runs + 1]
  /\ UNCHANGED <<now, sources, feed, run, tasks, orphans, rawInfo, queue, workers,
                 entities, llm, seeders>>

ManualNext ==
  \/ HandleSingleSourceCollection \/ ManualCollect
  \/ ManualReadStatus \/ ManualWriteStatus \/ ManualReturn

\* a catalog holding the REST source, enabled or disabled
InitManual ==
  /\ now = 0
  /\ \E enabled \in BOOLEAN :
       sources = [x \in {ProjectSource} |->
                    createSourceConfig("project_info", "defillama", "api:rest", 1, 20, enabled)]
  /\ feed \in [{ProjectSource} -> Feeds(ProjectSource)]
  /\ run = IdleRun
  /\ tasks = <<>>
  /\ orphans = {}
  /\ rawInfo = EmptyFn
  /\ queue = EmptyFn
  /\ workers = [w \in Workers |-> IdleWorker]
  /\ entities = EmptyFn
  /\ llm = {}
  /\ seeders = [s \in Seeders |-> IdleSeeder]
  /\ fetched = IdleManual

NextManual == CollectorNext \/ ManualNext

SpecManual == InitManual /\ [][NextManual]_vars

\* a run over both sources; the first one collected serves two items
InitOrder ==
  /\ now = 0
  /\ sources = FixedSources
  /\ feed = [id \in SourceIds |-> IF id = ProjectSource THEN <<RestV1>> ELSE <<RssX, RssY>>]
  /\ run = IdleRun
  /\ tasks = <<>>
  /\ orphans = {}
  /\ rawInfo = EmptyFn
  /\ queue = EmptyFn
  /\ workers = [w \in Workers |-> IdleWorker]
  /\ entities = EmptyFn
  /\ llm = {}
  /\ seeders = [s \in Seeders |-> IdleSeeder]
  /\ fetched = <<>>

NextOrder == CollectorNext \/ OrphanNext

SpecOrder == InitOrder /\ [][NextOrder]_vars

MarketInfoUniquePerItem ==
  \A k1, k2 \in DOMAIN rawInfo :
    ( /\ k1[1] = "market_info" /\ k2[1] = "market_info"
      /\ rawInfo[k1].source = rawInfo[k2].source
      /\ rawInfo[k1].title = rawInfo[k2].title
      /\ rawInfo[k1].link = rawInfo[k2].link )
    => k1 = k2

C8_AsStated ==
  (run.pc = "idle" /\ orphans = {})
  => \A key \in DOMAIN rawInfo :
       rawInfo[key].processedStatus = "pending"
       => [type |-> key[1], infoId |-> key[2]] \in DOMAIN queue

C4_IdempotentSkip ==
  [][\A w \in Workers :
       LET key == RawOf(workers[w].msg)
       IN  /\ ( /\ workers[w].pc = "get"
                /\ key \in DOMAIN rawInfo
                /\ rawInfo[key].processedStatus = "processed"
                /\ workers'[w] # workers[w] )
              => /\ workers'[w].pc = "return"
                 /\ workers'[w].llmCalls = 0 /\ workers'[w].ops = <<>>
                 /\ rawInfo' = rawInfo /\ entities' = entities
           /\ ( /\ workers[w].pc = "return"
                /\ workers[w].status = "processed"
                /\ workers'[w] # workers[w] )
              => /\ workers'[w].pc = "idle"
                 /\ workers[w].llmCalls = 0
                 /\ rawInfo' = rawInfo /\ entities' = entities]_vars

\* a worker has skipped a processed record
C4_Witness ==
  \E w \in Workers :
    /\ workers[w].pc = "return"
    /\ workers[w].status = "processed"
    /\ RawOf(workers[w].msg) \in DOMAIN rawInfo
    /\ rawInfo[RawOf(workers[w].msg)].processedStatus = "processed"

\* ---------------------------------------------------------------- C5
\* C5 as stated: with an LLM whose every response holds at least one tool
\* call and never report_analysis, a loop that returns has made exactly
\* MaxRounds requests, and an invocation that returns without error has run
\* every accumulated operation and left the record processed.
C5_AsStated ==
  (\A r \in llm :
     /\ r.tools # <<>>
     /\ \A i \in DOMAIN r.tools : r.tools[i].name # "report_analysis")
  => \A w \in Workers :
       /\ workers[w].pc = "exec" => workers[w].llmCalls = MaxRounds
       /\ ( /\ workers[w].pc = "return" /\ ~workers[w].failed
            /\ workers[w].status \in {"pending", "processing", "failed"} )
          => /\ workers[w].llmCalls = MaxRounds
             /\ workers[w].k = Len(workers[w].ops) + 1
             /\ rawInfo[RawOf(workers[w].msg)].processedStatus = "processed"

\* C5 amended: with an LLM whose every response holds at least one tool call,
\* never report_analysis and never the stop reason end_turn, a loop that
\* returns has made exactly MaxRounds requests, and an invocation that returns
\* without error has run every accumulated operation and left the record
\* processed.
C5_BoundedLoop ==
  (\A r \in llm :
     /\ r.tools # <<>>
     /\ r.stop_reason # "end_turn"
     /\ \A i \in DOMAIN r.tools : r.tools[i].name # "report_analysis")
  => \A w \in Workers :
       /\ workers[w].pc = "exec" => workers[w].llmCalls = MaxRounds
       /\ ( /\ workers[w].pc = "return" /\ ~workers[w].failed
            /\ workers[w].status \in {"pending", "processing", "failed"} )
          => /\ workers[w].llmCalls = MaxRounds
             /\ workers[w].k = Len(workers[w].ops) + 1
             /\ rawInfo[RawOf(workers[w].msg)].processedStatus = "processed"

\* an invocation went through MaxRounds rounds of tool calls and finished
C5_Witness ==
  /\ llm = NeverReports
  /\ \E w \in Workers :
       /\ workers[w].pc = "return" /\ ~workers[w].failed
       /\ workers[w].llmCalls = MaxRounds
       /\ Len(workers[w].ops) >= 2
       /\ workers[w].k = Len(workers[w].ops) + 1
       /\ rawInfo[RawOf(workers[w].msg)].processedStatus = "processed"

\* ---------------------------------------------------------------- C6
\* C6 as stated: once a response of the loop held report_analysis, the
\* invocation makes no further LLM request.
C6_AsStated ==
  [][\A w \in Workers :
       (workers[w].reasoning = "reported" /\ workers[w].pc = "llm")
       => workers'[w].llmCalls = workers[w].llmCalls]_vars

\* ---------------------------------------------------------------- C7
\* C7 as stated: after a failure the record is failed with the error message
\* stored, and when the failed invocation ends its message is back in the
\* queue for redelivery.
C7_AsStated ==
  [][\A w \in Workers :
       LET msg == workers[w].msg
           key == RawOf(msg)
       IN  /\ (workers[w].pc = "catch" /\ workers'[w] # workers[w])
              => /\ rawInfo'[key].processedStatus = "failed"
                 /\ rawInfo'[key].processError = workers[w].error
           /\ (workers[w].pc = "return" /\ workers[w].failed /\ workers'[w].pc = "idle")
              => /\ msg \in DOMAIN queue'
                 /\ queue'[msg] > (IF msg \in DOMAIN queue THEN queue[msg] ELSE 0)]_vars

\* ---------------------------------------------------------------- C9
\* C9: the sources a run is going to collect are exactly the sources that are
\* enabled and either never collected or last collected at least
\* intervalMinutes ago.
C9_DueSet ==
  [][(run.pc = "idle" /\ run'.pc = "loop")
     => {run'.due[i].id : i \in DOMAIN run'.due}
        = {id \in DOMAIN sources' :
             /\ sources'[id].enabled
             /\ \/ sources'[id].lastCollectedAt = NoTime
                \/ now - sources'[id].lastCollectedAt >= sources'[id].intervalMinutes}]_vars

\* a run is about to collect the feed source again, its interval elapsed,
\* and has left out the enabled REST source collected too recently (the REST
\* source sorts after the feed source, so it was not collected by this run)
C9_Witness ==
  /\ run.pc = "loop"
  /\ Len(run.due) = 1
  /\ run.due[1].id = MarketSource
  /\ run.due[1].lastCollectedAt # NoTime
  /\ ProjectSource \in DOMAIN sources
  /\ sources[ProjectSource].enabled
  /\ sources[ProjectSource].lastCollectedAt # NoTime
  /\ now - sources[ProjectSource].lastCollectedAt < sources[ProjectSource].intervalMinutes

\* --------------------------------------------------------------- C10
\* C10 as stated: when the collection of a source ends, in success or in any
\* failure, the source's lastCollectedAt is the current time and its
\* lastItemCount was rewritten.
C10_AsStated ==
  [][\A id \in DOMAIN sources :
       ( \/ /\ run.pc = "loop" /\ run'.pc = "loop"
            /\ run.due # <<>> /\ run'.due = Tail(run.due)
            /\ Head(run.due).id = id
         \/ /\ run.pc = "batch" /\ run'.pc = "loop"
            /\ run.cur = id )
       => sources'[id].lastCollectedAt = now]_vars

\* --------------------------------------------------------------- C13
\* C13: for every score in [0,100] and every list of flags the derived status
\* is one of normal, watch, warning, danger, chosen in this order: a critical
\* risk gives danger; else a high risk or a score below 30 gives danger; else
\* a medium risk or a score below 50 gives warning; else a high-importance
\* opportunity or a score of 80 or more gives watch; else normal.  Adding a
\* critical risk flag gives danger.
C13_StatusDerivation ==
  \A id \in DOMAIN entities :
    LET e == entities[id]
        Risk(sev) == \E i \in DOMAIN e.riskFlags : e.riskFlags[i].severity = sev
        Opp == \E i \in DOMAIN e.opportunityFlags :
                 e.opportunityFlags[i].importance = "high"
        derived == determineProjectStatus(e.healthScore, e.riskFlags, e.opportunityFlags)
        danger == Risk("critical") \/ Risk("high") \/ e.healthScore < 30
        warning == ~danger /\ (Risk("medium") \/ e.healthScore < 50)
        watch == ~danger /\ ~warning /\ (Opp \/ e.healthScore >= 80)
    IN  /\ e.healthScore \in 0..100
        /\ derived \in {"normal", "watch", "warning", "danger"}
        /\ derived = "danger" <=> danger
        /\ derived = "warning" <=> warning
        /\ derived = "watch" <=> watch
        /\ derived = "normal" <=> (~danger /\ ~warning /\ ~watch)
        /\ determineProjectStatus(e.healthScore,
              <<RiskFlagOf("critical")>> \o e.riskFlags, e.opportunityFlags) = "danger"
        /\ determineProjectStatus(e.healthScore,
              e.riskFlags \o <<RiskFlagOf("critical")>>, e.opportunityFlags) = "danger"
        /\ e.status \in {"normal", derived}

\* the derivation gave watch to an entity for its score of exactly 80, with a
\* low risk flag and no high-importance opportunity
C13_Witness ==
  \E id \in DOMAIN entities :
    /\ entities[id].status = "watch"
    /\ entities[id].healthScore = 80
    /\ entities[id].riskFlags # <<>>
    /\ \A i \in DOMAIN entities[id].opportunityFlags :
         entities[id].opportunityFlags[i].importance # "high"

\* --------------------------------------------------------------- C11
\* C11 as stated: every stored entity that holds a status, a score and its
\* flag lists has the status determineProjectStatus gives for them.
C11_AsStated ==
  \A id \in DOMAIN entities :
    LET e == entities[id]
    IN  {"status", "healthScore", "riskFlags", "opportunityFlags"} \subseteq DOMAIN e
        => e.status = determineProjectStatus(e.healthScore, e.riskFlags, e.opportunityFlags)

\* --------------------------------------------------------------- C12
\* C12 as stated: every stored entity's healthScore is in [0,100].
C12_AsStated ==
  \A id \in DOMAIN entities :
    "healthScore" \in DOMAIN entities[id] => entities[id].healthScore \in 0..100

\* --------------------------------------------------------------- C14
\* no two risk flags, and no two opportunity flags, of a stored entity have
\* the same type and description
NoDuplicateFlags ==
  \A id \in DOMAIN entities : \A field \in {"riskFlags", "opportunityFlags"} :
    LET flags == ListOf(entities[id], field)
    IN  \A i, j \in DOMAIN flags :
          (flags[i].type = flags[j].type /\ flags[i].description = flags[j].description)
          => i = j

\* C14: whatever the workers do and however they interleave, no stored flag
\* list holds two flags with the same type and description, and an add-flag
\* operation that finds its {type, description} in the stored list writes
\* nothing.
C14_DuplicateFlagSuppression ==
  [][ /\ NoDuplicateFlags'
      /\ \A w \in Workers :
           ( /\ workers[w].pc = "exec"
             /\ workers[w].k <= Len(workers[w].ops)
             /\ workers'[w] # workers[w] )
           => LET operation == workers[w].ops[workers[w].k]
                  field == IF operation.type = "add_risk_flag" THEN "riskFlags"
                           ELSE "opportunityFlags"
              IN  ( /\ operation.type \in {"add_risk_flag", "add_opportunity_flag"}
                    /\ operation.entityId \in DOMAIN entities
                    /\ HasFlag(ListOf(entities[operation.entityId], field), operation.flag) )
                  => /\ workers'[w].write = <<>>
                     /\ entities' = entities ]_vars

\* two workers have both finished adding the same risk flag to one entity,
\* which holds it once
C14_Witness ==
  /\ "acme" \in DOMAIN entities
  /\ Len(ListOf(entities["acme"], "riskFlags")) = 1
  /\ \A w \in Workers :
       /\ workers[w].ops # <<>>
       /\ workers[w].ops[1].type = "add_risk_flag"
       /\ workers[w].ops[1].flag.description = "hack"
       /\ workers[w].k = 2
       /\ workers[w].pc = "exec"

\* --------------------------------------------------------------- C16
\* C16: a create operation that finds its id in the entity store plans an
\* update, not a put, and that update, applied to the entity still stored,
\* adds no entity and changes only description, logo, website, twitter (those
\* the operation supplies) and lastUpdated.
C16_IdempotentCreate ==
  [][\A w \in Workers :
       /\ ( /\ workers[w].pc = "exec"
            /\ workers[w].k <= Len(workers[w].ops)
            /\ workers[w].ops[workers[w].k].type = "create"
            /\ workers[w].ops[workers[w].k].entity.id \in DOMAIN entities
            /\ workers'[w].pc = "write" )
          => /\ ~workers'[w].write[1].put
             /\ entities' = entities
       /\ ( /\ workers[w].pc = "write"
            /\ workers'[w].pc = "exec"
            /\ workers[w].ops[workers[w].k].type = "create"
            /\ ~workers[w].write[1].put
            /\ workers[w].write[1].id \in DOMAIN entities )
          => LET id == workers[w].write[1].id
                 entity == workers[w].ops[workers[w].k].entity
             IN  /\ DOMAIN entities' = DOMAIN entities
                 /\ \A x \in DOMAIN entities \ {id} : entities'[x] = entities[x]
                 /\ DOMAIN entities[id] \subseteq DOMAIN entities'[id]
                 /\ \A f \in DOMAIN entities'[id] :
                      \/ f \in DOMAIN entities[id] /\ entities'[id][f] = entities[id][f]
                      \/ f = "lastUpdated"
                      \/ /\ f \in {"description", "logo", "website", "twitter"}
                         /\ f \in DOMAIN entity
                         /\ entities'[id][f] = entity[f] ]_vars

\* a create met the entity stored under another name: the description is the
\* supplied one, the name is the old one
C16_Witness ==
  /\ "acme" \in DOMAIN entities
  /\ "description" \in DOMAIN entities["acme"]
  /\ entities["acme"].description = "v2"
  /\ entities["acme"].name = "Acme Labs"
  /\ \E w \in Workers :
       /\ workers[w].ops # <<>>
       /\ workers[w].ops[1].type = "create"
       /\ workers[w].k = 2

\* --------------------------------------------------------------- C17
\* C17 as stated: when an update, add_event or add-flag operation of a worker
\* meets a store without its target id, at its read or at its write, the
\* store is without that id after the worker's step.
C17_AsStated ==
  [][\A w \in Workers :
       ( /\ workers[w].pc \in {"exec", "write"}
         /\ workers[w].k <= Len(workers[w].ops)
         /\ workers'[w] # workers[w]
         /\ workers[w].ops[workers[w].k].type # "create"
         /\ workers[w].ops[workers[w].k].entityId \notin DOMAIN entities )
       => workers[w].ops[workers[w].k].entityId \notin DOMAIN entities' ]_vars

\* --------------------------------------------------------------- C19
\* C19: no lock or condition guards an update: it stores the fields the
\* worker computed from its earlier read whatever the item holds by then, so
\* of two workers that add an event to one entity at the same time one
\* addition can be lost.
C19_LostUpdate ==
  [][\A w \in Workers :
       ( /\ workers[w].pc = "write"
         /\ workers'[w].pc = "exec"
         /\ ~workers[w].write[1].put )
       => LET planned == workers[w].write[1]
          IN  /\ planned.id \in DOMAIN entities'
              /\ \A f \in DOMAIN planned.item \ {"id"} :
                   entities'[planned.id][f] = planned.item[f] ]_vars

\* both workers have added their event to the entity, which was never
\* deleted, and it holds one event
C19_Witness ==
  /\ "acme" \in DOMAIN entities
  /\ "createdAt" \in DOMAIN entities["acme"]
  /\ Len(entities["acme"].recentEvents) = 1
  /\ \A w \in Workers :
       /\ workers[w].ops # <<>>
       /\ workers[w].ops[1].type = "add_event"
       /\ workers[w].k = 2
       /\ workers[w].pc = "exec"

\* --------------------------------------------------------------- C15
\* C15: an add_event on an absent entity writes nothing; on an existing entity
\* it leaves at most MaxEvents events, the new one first, the older ones
\* after it in their order, and drops the oldest when the list was full.
C15_BoundedEventHistory ==
  [][\A w \in Workers :
       ( /\ workers[w].pc \in {"exec", "write"}
         /\ workers[w].k <= Len(workers[w].ops)
         /\ workers[w].ops[workers[w].k].type = "add_event"
         /\ workers'[w] # workers[w] )
       => LET operation == workers[w].ops[workers[w].k]
              id == operation.entityId
          IN  /\ (workers[w].pc = "exec" /\ id \notin DOMAIN entities)
                 => workers'[w].write = <<>> /\ entities' = entities
              /\ (workers[w].pc = "write" /\ workers'[w].pc = "exec" /\ id \in DOMAIN entities)
                 => LET old == ListOf(entities[id], "recentEvents")
                        new == entities'[id].recentEvents
                    IN  /\ Len(new) = Min(Len(old) + 1, MaxEvents)
                        /\ new[1].id = <<w, workers[w].k, now>>
                        /\ new[1].title = operation.event.title
                        /\ \A i \in 2..Len(new) : new[i] = old[i - 1] ]_vars

\* the list is full and its first event is one added after the list filled up
C15_Witness ==
  /\ "acme" \in DOMAIN entities
  /\ Len(entities["acme"].recentEvents) = MaxEvents
  /\ entities["acme"].recentEvents[1].id[2] > MaxEvents + 1
  /\ entities["acme"].recentEvents[MaxEvents].id[2]
       = entities["acme"].recentEvents[1].id[2] - MaxEvents + 1

\* --------------------------------------------------------------- C18
\* C18 as stated: when both deliveries of the record's message have been
\* handled without a failure, the record's one add_event is in the entity
\* store once and the LLM was called for the record once.
C18_AsStated ==
  (\A w \in Workers :
      /\ workers[w].pc = "return"
      /\ RawOf(workers[w].msg) = RawOf(PendingMessage)
      /\ ~workers[w].failed)
  => /\ Len(ListOf(entities["acme"], "recentEvents")) = 1
     /\ workers["w1"].llmCalls + workers["w2"].llmCalls = 1

\* --------------------------------------------------------------- C20
\* C20 as stated: a supported source whose upstream holds items and whose
\* collection ends with nothing fetched (every request failed) is recorded as
\* failed: lastCollectStatus = failed, lastCollectError set, failedCount
\* incremented, successCount unchanged.
C20_AsStated ==
  [][( /\ run.pc = "loop"
       /\ run.due # <<>>
       /\ isCollectorSupported(Head(run.due).collectorType)
       /\ feed[Head(run.due).id] # <<>>
       /\ Head(run.due).id \in DOMAIN sources
       /\ run'.pc = "loop"
       /\ run'.due = Tail(run.due) )
     => LET id == Head(run.due).id
        IN  /\ sources'[id].lastCollectStatus = "failed"
            /\ sources'[id].lastCollectError # ""
            /\ sources'[id].stats.failedCount = sources[id].stats.failedCount + 1
            /\ sources'[id].stats.successCount = sources[id].stats.successCount ]_vars

\* --------------------------------------------------------------- C21
\* C21: a call of initializeDefaultSources that finds the catalog non-empty
\* writes nothing and returns 0, whatever entries are missing; a call that
\* finds it empty saves the defaults; only such a call writes; and once the
\* calls that saved have finished, the catalog holds exactly the default
\* entries, one per default id.
C21_IdempotentSeeding ==
  /\ []( ( /\ \A s \in Seeders : seeders[s].pc \in {"idle", "done"}
           /\ \E s \in Seeders : seeders[s].pc = "done" /\ seeders[s].created > 0 )
         => /\ DOMAIN sources = {DefaultList[i] : i \in DOMAIN DefaultList}
            /\ \A id \in DOMAIN sources : sources[id] = DefaultSources[id] )
  /\ [][ /\ \A s \in Seeders :
              (seeders[s].pc = "idle" /\ seeders'[s].pc # "idle")
              => IF DOMAIN sources # {}
                 THEN /\ seeders'[s].pc = "done"
                      /\ seeders'[s].created = 0
                      /\ sources' = sources
                 ELSE seeders'[s].pc = "save"
         /\ sources' # sources
            => \E s \in Seeders : seeders[s].pc = "save" /\ seeders'[s].created = seeders[s].created + 1
       ]_vars

\* two concurrent calls both found the catalog empty and both saved every default
C21_Witness ==
  /\ \A s \in Seeders : seeders[s].pc = "done" /\ seeders[s].created = Len(DefaultList)
  /\ sources = DefaultSources

\* --------------------------------------------------------------- C22
\* C22 as stated: two calls of fetchEndpoint with the same mapping on the
\* same upstream records give each record the same ProjectInfo id.
C22_AsStated ==
  \A a \in DOMAIN fetched : \A b \in DOMAIN fetched :
    ( /\ fetched[a].mapping = fetched[b].mapping
      /\ ~fetched[a].result.threw
      /\ ~fetched[b].result.threw )
    => \A i \in DOMAIN fetched[a].result.items :
         fetched[a].result.items[i].id = fetched[b].result.items[i].id

\* --------------------------------------------------------------- C23
\* C23 as stated: no call of fetchEndpoint ends with an exception of the
\* mapping, and every record of the endpoint is mapped.
C23_AsStated ==
  \A a \in DOMAIN fetched :
    /\ ~fetched[a].result.threw
    /\ Len(fetched[a].result.items) = Len(fetched[a].data)

\* --------------------------------------------------------------- C24
\* C24: when the response of a round holds no tool call the loop ends with
\* that round: the operations, the analysis and the messages are those of the
\* rounds before it, and no LLM request follows in the invocation.
C24_ZeroToolCallsEndLoop ==
  [][\A w \in Workers :
       /\ ( /\ workers[w].pc = "llm"
            /\ workers'[w].llmCalls = workers[w].llmCalls + 1
            /\ workers'[w].pc # "catch"
            /\ workers'[w].response.content = <<>> )
          => /\ workers'[w].pc = "exec"
             /\ workers'[w].ops = workers[w].ops
             /\ workers'[w].sentiment = workers[w].sentiment
             /\ workers'[w].reasoning = workers[w].reasoning
             /\ workers'[w].messages =
                  IF workers[w].llmCalls = 0 THEN <<UserPrompt>> ELSE workers[w].messages
       /\ (workers[w].pc # "llm" /\ workers'[w].pc # "idle")
          => /\ workers'[w].llmCalls = workers[w].llmCalls
             /\ workers'[w].ops = workers[w].ops
             /\ workers'[w].sentiment = workers[w].sentiment
             /\ workers'[w].reasoning = workers[w].reasoning ]_vars

\* the third round held no tool call and ended a loop that had recorded operations
C24_Witness ==
  \E w \in Workers :
    /\ workers[w].pc = "exec"
    /\ workers[w].llmCalls = 3
    /\ workers[w].response = [content |-> <<>>, stop_reason |-> "max_tokens"]
    /\ Len(workers[w].ops) = 2
    /\ workers[w].reasoning = "reported"

\* --------------------------------------------------------------- C25
\* the tool_use blocks of the assistant messages, as <<message, block>> indexes
ToolCallsOf(messages) ==
  { <<i, j>> \in (DOMAIN messages) \X (1..3) :
      messages[i].role = "assistant" /\ j \in DOMAIN messages[i].content }

OperationTools ==
  {"create_project", "update_project", "add_event", "add_risk_flag", "add_opportunity_flag"}

\* the messages are the prompt followed by pairs of an assistant message that
\* holds tool calls and a user message that answers each call under its id
WellFormedMessages(messages) ==
  \/ messages = <<>>
  \/ /\ messages[1] = UserPrompt
     /\ Len(messages) % 2 = 1
     /\ \A i \in 1..(Len(messages) \div 2) :
          LET assistant == messages[2 * i]
              user == messages[2 * i + 1]
          IN  /\ assistant.role = "assistant"
              /\ assistant.content # <<>>
              /\ user.role = "user"
              /\ DOMAIN user.content = DOMAIN assistant.content
              /\ \A j \in DOMAIN user.content :
                   /\ user.content[j].type = "tool_result"
                   /\ user.content[j].tool_use_id = assistant.content[j].id

\* C25 as stated: every tool call is answered with a success tool_result.
C25_AsStated ==
  \A w \in Workers :
    \A i \in DOMAIN workers[w].messages :
      (i > 1 /\ workers[w].messages[i].role = "user")
      => \A j \in DOMAIN workers[w].messages[i].content :
           workers[w].messages[i].content[j].success

\* C25: the operations recorded are as many as the tool calls named after an
\* entity operation; each round with tool calls adds one assistant message and
\* one user message with one tool_result per call under that call's id; the
\* result is a success for an entity operation and for report_analysis, and a
\* failure for any other tool name.
C25_ConversionAndAcknowledgment ==
  /\ [](\A w \in Workers :
          LET messages == workers[w].messages
          IN  /\ WellFormedMessages(messages)
              /\ Len(workers[w].ops)
                   = Cardinality({c \in ToolCallsOf(messages) :
                                    messages[c[1]].content[c[2]].name \in OperationTools})
              /\ \A c \in ToolCallsOf(messages) :
                   messages[c[1] + 1].content[c[2]].success
                     <=> messages[c[1]].content[c[2]].name
                           \in OperationTools \cup {"report_analysis"})
  /\ [][\A w \in Workers :
          ( /\ workers[w].pc = "llm"
            /\ workers'[w].llmCalls = workers[w].llmCalls + 1
            /\ workers'[w].pc # "catch"
            /\ workers'[w].response.content # <<>> )
          => Len(workers'[w].messages)
               = (IF workers[w].llmCalls = 0 THEN 1 ELSE Len(workers[w].messages)) + 2 ]_vars

\* a resolution of several rounds that called an unknown tool, report_analysis
\* and entity operations
C25_Witness ==
  \E w \in Workers :
    /\ workers[w].pc = "exec"
    /\ Len(workers[w].messages) = 7
    /\ Len(workers[w].ops) = 3
    /\ workers[w].reasoning = "reported"
    /\ \E c \in ToolCallsOf(workers[w].messages) :
         ~workers[w].messages[c[1] + 1].content[c[2]].success

\* --------------------------------------------------------------- C26
\* the operations the tool calls of the messages convert to, in emission order
RECURSIVE BlockOperations(_)
BlockOperations(content) ==
  IF content = <<>> THEN <<>>
  ELSE (IF Head(content).name = "report_analysis" THEN <<>>
        ELSE toolCallToOperation(Head(content)))
       \o BlockOperations(Tail(content))

RECURSIVE EmittedOperations(_)
EmittedOperations(messages) ==
  IF messages = <<>> THEN <<>>
  ELSE (IF Head(messages).role = "assistant" THEN BlockOperations(Head(messages).content)
        ELSE <<>>)
       \o EmittedOperations(Tail(messages))

\* C26: the operations are those of the tool calls in emission order; they are
\* executed one at a time in that order and only once the loop has ended; when
\* all of them have been executed a create followed by an add_event for the
\* same id has left the entity in the store with that event.
C26_EmissionOrder ==
  /\ [](\A w \in Workers :
          /\ workers[w].ops = EmittedOperations(workers[w].messages)
          /\ workers[w].pc = "llm" => workers[w].k = 1 /\ workers[w].write = <<>>
          /\ ( /\ \/ workers[w].pc = "exec" /\ workers[w].k > Len(workers[w].ops)
                  \/ workers[w].pc = "return" /\ ~workers[w].failed
               /\ workers[w].llmCalls > 0 )
             => \A i \in DOMAIN workers[w].ops : \A j \in DOMAIN workers[w].ops :
                  ( /\ i < j
                    /\ workers[w].ops[i].type = "create"
                    /\ workers[w].ops[j].type = "add_event"
                    /\ workers[w].ops[j].entityId = workers[w].ops[i].entity.id )
                  => /\ workers[w].ops[j].entityId \in DOMAIN entities
                     /\ \E n \in DOMAIN ListOf(entities[workers[w].ops[j].entityId],
                                               "recentEvents") :
                          LET event == entities[workers[w].ops[j].entityId].recentEvents[n]
                          IN  /\ event.id = <<w, j, now>>
                              /\ event.title = workers[w].ops[j].event.title)
  /\ [][\A w \in Workers :
          (workers[w].pc \in {"exec", "write"} /\ workers'[w].pc \in {"exec", "write"})
          => /\ workers'[w].k \in {workers[w].k, workers[w].k + 1}
             /\ workers'[w].k = workers[w].k + 1 <=> workers'[w].pc = "exec"
             /\ entities' # entities
                => /\ workers[w].pc = "write"
                   /\ workers[w].write[1].id = TargetId(workers[w].ops[workers[w].k]) ]_vars

\* a resolution created the entity and then added an event to it, nothing failed
C26_Witness ==
  \E w \in Workers :
    /\ workers[w].pc = "return"
    /\ ~workers[w].failed
    /\ Len(workers[w].ops) = 2
    /\ workers[w].ops[1].type = "create"
    /\ workers[w].ops[2].type = "add_event"
    /\ "acme" \in DOMAIN entities
    /\ Len(entities["acme"].recentEvents) = 1

\* --------------------------------------------------------------- C27
\* C27 as stated: when the collector of the next due source is invoked that
\* source has the lowest priority value of the sources still due, and no item
\* task of another source is still running.
C27_AsStated ==
  [][( /\ run.pc = "loop"
       /\ run.due # <<>>
       /\ run'.due = Tail(run.due)
       /\ run' # run )
     => /\ \A i \in DOMAIN run.due : Head(run.due).priority <= run.due[i].priority
        /\ tasks = <<>>
        /\ \A o \in orphans : o.info.source = Head(run.due).sourceId ]_vars

\* --------------------------------------------------------------- C28
\* the item tasks in flight, of the batch or left over from a rejected batch
ItemTasks == {tasks[i] : i \in DOMAIN tasks} \cup orphans

\* C28: a message is sent only by an item task that has written its record,
\* and it holds the record's type and id and nothing else; an item task is at
\* its send, or past it, only with its record in the store; an item task that
\* skipped a duplicate or whose write raised sends nothing.
C28_SaveBeforeEnqueue ==
  /\ [](\A t \in ItemTasks :
          t.pc \in {"send", "saved"} => RawKey(t.type, t.info.id) \in DOMAIN rawInfo)
  /\ [][ /\ queue' # queue
            => \E t \in ItemTasks :
                 /\ t.pc = "send"
                 /\ RawKey(t.type, t.info.id) \in DOMAIN rawInfo
                 /\ queue' = BagAdd(queue, [type |-> t.type, infoId |-> t.info.id])
         /\ \A i \in DOMAIN tasks :
              (i \in DOMAIN tasks' /\ tasks[i].pc \in {"check", "put"}
                 /\ tasks'[i].pc \in {"skipped", "threw"})
              => queue' = queue
         /\ \A i \in DOMAIN tasks :
              (i \in DOMAIN tasks' /\ tasks[i].pc = "put" /\ tasks'[i].pc = "send")
              => /\ RawKey(tasks[i].type, tasks[i].info.id) \in DOMAIN rawInfo'
                 /\ rawInfo'[RawKey(tasks[i].type, tasks[i].info.id)] = tasks[i].info
       ]_vars

\* one item of a batch was written and enqueued, another was skipped as a duplicate
C28_Witness ==
  /\ \E i \in DOMAIN tasks :
       /\ tasks[i].pc = "saved"
       /\ [type |-> tasks[i].type, infoId |-> tasks[i].info.id] \in DOMAIN queue
  /\ \E i \in DOMAIN tasks : tasks[i].pc = "skipped"

\* --------------------------------------------------------------- C29
\* C29: a status update of a source adds 1 to exactly one of successCount and
\* failedCount; a success leaves no lastCollectError, adds the number of saved
\* items to totalCollected and sets lastItemCount to it; a failure stores an
\* error message, leaves totalCollected as it was and sets lastItemCount to 0.
\* Nothing else changes the status fields.
C29_RunBookkeeping ==
  [][\A id \in DOMAIN sources \cap DOMAIN sources' :
       LET old == sources[id]
           new == sources'[id]
           saved == IF run.pc = "batch" THEN run.saved + CountPc("saved") ELSE 0
       IN  IF new.stats = old.stats
           THEN /\ new.lastCollectStatus = old.lastCollectStatus
                /\ new.lastCollectError = old.lastCollectError
                /\ new.lastCollectedAt = old.lastCollectedAt
           ELSE \/ /\ new.lastCollectStatus = "success"
                   /\ new.stats.successCount = old.stats.successCount + 1
                   /\ new.stats.failedCount = old.stats.failedCount
                   /\ new.lastCollectError = ""
                   /\ new.stats.totalCollected = old.stats.totalCollected + saved
                   /\ new.stats.lastItemCount = saved
                \/ /\ new.lastCollectStatus = "failed"
                   /\ new.stats.failedCount = old.stats.failedCount + 1
                   /\ new.stats.successCount = old.stats.successCount
                   /\ new.lastCollectError # ""
                   /\ new.stats.totalCollected = old.stats.totalCollected
                   /\ new.stats.lastItemCount = 0 ]_vars

\* a source that failed in one run succeeded in a later one and saved an item
C29_Witness ==
  \E id \in DOMAIN sources :
    /\ sources[id].stats.failedCount = 1
    /\ sources[id].stats.successCount = 1
    /\ sources[id].stats.totalCollected = 1
    /\ sources[id].stats.lastItemCount = 1
    /\ sources[id].lastCollectStatus = "success"
    /\ sources[id].lastCollectError = ""

\* --------------------------------------------------------------- C30
\* C30: when the collector of a source reports a failure the run writes no
\* raw record and sends no message, starts no item task for the source,
\* stores the failure with the collector's error, and goes on with the
\* sources still due; the item tasks of a run are those of the source being
\* collected.
C30_NoPartialSave ==
  /\ [](\A i \in DOMAIN tasks :
          /\ run.pc = "batch"
          /\ (run.cur \in DOMAIN sources
                => tasks[i].info.source = sources[run.cur].sourceId))
  /\ [][( /\ run.pc = "loop"
          /\ run.due # <<>>
          /\ Head(run.due).id \in DOMAIN sources'
          /\ Head(run.due).id \in DOMAIN sources
          /\ sources'[Head(run.due).id].stats.failedCount
               = sources[Head(run.due).id].stats.failedCount + 1 )
        => /\ rawInfo' = rawInfo
           /\ queue' = queue
           /\ tasks' = <<>>
           /\ sources'[Head(run.due).id].lastCollectStatus = "failed"
           /\ sources'[Head(run.due).id].lastCollectError = "HTTP 500"
           /\ run'.pc = "loop"
           /\ run'.due = Tail(run.due) ]_vars

\* the collector of the first source failed, nothing of that source is stored,
\* and the run is collecting the next source
C30_Witness ==
  /\ run.pc = "batch"
  /\ run.cur = ProjectSource
  /\ MarketSource \in DOMAIN sources
  /\ sources[MarketSource].lastCollectStatus = "failed"
  /\ sources[MarketSource].lastCollectedAt = now
  /\ sources[MarketSource].stats.failedCount = 1
  /\ \A key \in DOMAIN rawInfo : key[1] # "market_info"

\* the items of the calls that returned, in the order of the calls
RECURSIVE ItemsOfCalls(_)
ItemsOfCalls(calls) ==
  IF calls = <<>> THEN <<>>
  ELSE (IF Head(calls).outcome = "returned" THEN Head(calls).items ELSE <<>>)
       \o ItemsOfCalls(Tail(calls))

\* C31: partial-result policy of the REST collector.  The endpoints are
\* fetched one after another in the order of the configuration; an endpoint
\* whose request failed after its retries contributes no items, every other
\* endpoint is still fetched, and the items of the result are the
\* concatenation, in endpoint order, of the items of the endpoints that
\* succeeded.
C31_PartialResult ==
  /\ \A k \in DOMAIN fetched.calls :
       /\ fetched.calls[k].endpoint = k
       /\ fetched.calls[k].outcome = "raised" => fetched.calls[k].items = <<>>
       /\ fetched.calls[k].outcome = "returned" =>
            fetched.calls[k].items =
              fetchEndpoint(FixedSources[ProjectSource], RestEndpoints[k].mapping, feed[k],
                            [j \in DOMAIN feed[k] |-> "0.25"], now).items
  /\ fetched.allItems = ItemsOfCalls(fetched.calls)
  /\ fetched.pc \in {"return", "done"} => Len(fetched.calls) = Len(RestEndpoints)
  /\ fetched.pc = "done" =>
       /\ fetched.result.success
       /\ fetched.result.items = ItemsOfCalls(fetched.calls)

\* the first endpoint failed after its retries, the second was fetched and
\* its items are the result
C31_Witness ==
  /\ fetched.pc = "done"
  /\ fetched.calls[1].fetch = "raise"
  /\ Len(fetched.calls[1].responses) = retries
  /\ fetched.calls[2].outcome = "returned"
  /\ fetched.result.items = fetched.calls[2].items
  /\ Len(fetched.result.items) = 2

\* the calls of fetchWithRetry: those that ended and the one in progress
RetryCalls ==
  {fetched.calls[k] : k \in DOMAIN fetched.calls}
  \cup (IF fetched.pc = "request"
        THEN {[ endpoint |-> fetched.endpoint, responses |-> fetched.responses,
                waits |-> fetched.waits, outcome |-> "pending", fetch |-> "pending",
                body |-> <<>>, items |-> <<>> ]}
        ELSE {})

\* the waits of a call, from its responses: attempt k counts from 1
RECURSIVE WaitsOf(_, _)
WaitsOf(responses, k) ==
  IF responses = <<>> THEN <<>>
  ELSE (IF Head(responses) = "429"
        THEN <<IF 1000 * 2^k < 60000 THEN 1000 * 2^k ELSE 60000>>
        ELSE IF Head(responses) = "200" \/ k = 3 THEN <<>>
        ELSE <<1000 * k>>)
       \o WaitsOf(Tail(responses), k + 1)

RetryCallsBounded ==
  \A call \in RetryCalls :
    /\ Len(call.responses) <= 3
    /\ call.waits = WaitsOf(call.responses, 1)
    /\ call.fetch = "return" =>
         /\ call.responses[Len(call.responses)] = "200"
         /\ \A k \in 1..(Len(call.responses) - 1) : call.responses[k] # "200"
         /\ call.body = feed[call.endpoint]
    /\ call.fetch = "raise" =>
         /\ Len(call.responses) = 3
         /\ \A k \in 1..3 : call.responses[k] # "200"
    /\ call.fetch = "pending" =>
         /\ Len(call.responses) < 3
         /\ \A k \in DOMAIN call.responses : call.responses[k] # "200"

\* the positions of collect and the step each one waits for: until collect
\* has returned there is one, and none of them can block
RestSteps ==
  [ idle |-> "RestCollectStart", request |-> "RestRequest", delay |-> "RestNextEndpoint",
    return |-> "RestCollectReturn", done |-> "" ]

\* a bound on the steps collect still takes: every step lowers it, and a
\* step is possible until collect has returned
StepsLeft ==
  IF fetched.pc = "idle" THEN (Len(RestEndpoints) + 1) * (retries + 2)
  ELSE IF fetched.pc = "done" THEN 0
  ELSE IF fetched.pc = "return" THEN 1
  ELSE (Len(RestEndpoints) - fetched.endpoint) * (retries + 2) + 1
       + (IF fetched.pc = "request" THEN retries - fetched.i + 1 ELSE 1)

RECURSIVE BagCount(_, _)
BagCount(b, S) ==
  IF S = {} THEN 0
  ELSE LET e == CHOOSE x \in S : TRUE IN b[e] + BagCount(b, S \ {e})

QueueSize == BagCount(queue, DOMAIN queue)

\* the batch in flight is the next 10 items at most of the result, and while
\* nothing raised the counters cover the batches before it
BatchInFlight ==
  run.pc = "batch" =>
    /\ Len(tasks) >= 1 /\ Len(tasks) <= 10
    /\ run.next % 10 = 1
    /\ Len(tasks) = (IF Len(run.items) - run.next + 1 < 10
                     THEN Len(run.items) - run.next + 1 ELSE 10)
    /\ \A i \in DOMAIN tasks : tasks[i].info = run.items[run.next + i - 1]
    /\ (\A i \in DOMAIN tasks : tasks[i].pc # "threw") =>
         /\ run.saved + run.skipped = run.next - 1
         /\ run.saved + CountPc("saved") = QueueSize

\* the step that ends a batch: every item of it has finished; the next batch
\* starts 10 items further, or the result is through and every item of it
\* was counted once
BatchEnds ==
  (run.pc = "batch" /\ (run'.pc # "batch" \/ run'.next # run.next)) =>
    \/ \E i \in DOMAIN tasks : tasks[i].pc = "threw"
    \/ /\ \A i \in DOMAIN tasks : tasks[i].pc \in {"saved", "skipped"}
       /\ LET saved == run.saved + CountPc("saved")
              skipped == run.skipped + CountPc("skipped")
          IN  /\ saved = QueueSize
              /\ saved + skipped = run.next - 1 + Len(tasks)
              /\ IF run'.pc = "batch"
                 THEN /\ run'.next = run.next + 10
                      /\ run'.saved = saved /\ run'.skipped = skipped
                      /\ \A i \in DOMAIN tasks' : tasks'[i].pc = "check"
                 ELSE /\ saved + skipped = Len(run.items)
                      /\ sources'[run.cur].lastCollectStatus = "success"
                      /\ sources'[run.cur].stats.lastItemCount = saved

\* C33: batch persistence accounting.  The items of a successful collector
\* result are persisted in consecutive batches of at most 10, a batch starting
\* only after every item of the previous one has finished; when no write or
\* send raises every item is counted exactly once: saved + skipped is the
\* number of collected items and saved is the number of messages sent.
C33_BatchAccounting == []BatchInFlight /\ [][BatchEnds]_vars

\* the second batch of a result of 11 items has finished: 8 items were saved
\* and sent, 3 were skipped
C33_Witness ==
  /\ run.pc = "batch"
  /\ Len(run.items) = 11
  /\ run.next = 11
  /\ run.saved = 8 /\ run.skipped = 2
  /\ Len(tasks) = 1 /\ tasks[1].pc = "skipped"
  /\ QueueSize = 8

\* the terms of the score, from the analysis and the operations
EventWeight(e) ==
  IF e = "security" THEN 30 ELSE IF e = "regulatory" THEN 25
  ELSE IF e \in {"funding", "legal"} THEN 20 ELSE 0

SentimentWeight(s) == IF s = "negative" THEN 15 ELSE IF s = "positive" THEN 5 ELSE 0

ProjectCount(output) ==
  IF output.analysis.identifiedProjects = Undefined THEN 0
  ELSE Len(output.analysis.identifiedProjects.f)

FlagOperations(output) ==
  Cardinality({i \in DOMAIN output.operations :
                 output.operations[i].type \in {"add_risk_flag", "add_opportunity_flag"}})

\* C34: the importance score is min(100, 50 + e + s + min(15, 5 * p) + 5 * f)
\* with e the weight of the event type, s that of the sentiment, p the number
\* of identified projects and f the number of add_risk_flag and
\* add_opportunity_flag operations; it is always in 50..100.
C34_ImportanceScore ==
  fetched # <<>> =>
    LET output == fetched.output
        p == ProjectCount(output)
        sum == 50 + EventWeight(output.analysis.eventType)
                  + SentimentWeight(output.analysis.sentiment)
                  + (IF 5 * p < 15 THEN 5 * p ELSE 15) + 5 * FlagOperations(output)
    IN  /\ fetched.importanceScore = (IF sum < 100 THEN sum ELSE 100)
        /\ fetched.importanceScore >= 50
        /\ fetched.importanceScore <= 100

\* a funding report on four projects with one risk flag: 50 + 20 + 5 + 15 + 5
C34_Witness ==
  /\ fetched # <<>>
  /\ fetched.output.analysis.eventType = "funding"
  /\ fetched.output.analysis.sentiment = "positive"
  /\ ProjectCount(fetched.output) = 4
  /\ FlagOperations(fetched.output) = 1
  /\ Len(fetched.output.operations) = 3
  /\ fetched.importanceScore = 95

\* --------------------------------------------------------------- C35
\* C35: a round whose response has stop_reason end_turn is the last round of
\* the loop.  Its tool calls are converted to operations and acknowledged
\* like those of any round, and no LLM request follows, whether or not
\* report_analysis was emitted and however few rounds have run.
C35_EndTurnEndsLoop ==
  /\ [](\A w \in Workers :
          (workers[w].pc = "llm" /\ workers[w].llmCalls > 0)
          => workers[w].response.stop_reason # "end_turn")
  /\ [][\A w \in Workers :
          ( /\ workers[w].pc = "llm"
            /\ workers'[w].llmCalls = workers[w].llmCalls + 1
            /\ workers'[w].pc # "catch"
            /\ workers'[w].response.stop_reason = "end_turn" )
          => LET content == workers'[w].response.content
                 before == IF workers[w].llmCalls = 0 THEN <<UserPrompt>>
                           ELSE workers[w].messages
             IN  /\ workers'[w].pc = "exec"
                 /\ workers'[w].ops = workers[w].ops \o BlockOperations(content)
                 /\ content # <<>> =>
                      /\ Len(workers'[w].messages) = Len(before) + 2
                      /\ SubSeq(workers'[w].messages, 1, Len(before)) = before
                      /\ workers'[w].messages[Len(before) + 1] =
                           [role |-> "assistant", content |-> content]
                      /\ LET results == workers'[w].messages[Len(before) + 2]
                         IN  /\ results.role = "user"
                             /\ DOMAIN results.content = DOMAIN content
                             /\ \A j \in DOMAIN content :
                                  results.content[j].tool_use_id = content[j].id ]_vars

\* the second round ended the loop with end_turn: its one tool call was
\* recorded and acknowledged, and report_analysis was never emitted
C35_Witness ==
  \E w \in Workers :
    /\ workers[w].pc = "exec"
    /\ workers[w].llmCalls = 2
    /\ workers[w].response.stop_reason = "end_turn"
    /\ Len(workers[w].response.content) = 1
    /\ workers[w].response.content[1].name = "add_opportunity_flag"
    /\ workers[w].reasoning = ""
    /\ Len(workers[w].ops) = 3
    /\ Len(workers[w].messages) = 5

\* --------------------------------------------------------------- C36
\* C36 as stated: no record is left in status processed by a worker that
\* analysed other content than the record holds, with the message of the
\* stored version consumed by the skip of processed records.
C36_AsStated ==
  \A a, b \in Workers :
    LET key == RawOf(workers[a].msg)
    IN  ~ ( /\ a # b
            /\ workers[a].pc = "return" /\ workers[a].llmCalls > 0 /\ ~workers[a].failed
            /\ workers[b].pc = "return" /\ workers[b].llmCalls = 0
            /\ workers[b].status = "processed"
            /\ workers[b].msg = workers[a].msg
            /\ key \in DOMAIN rawInfo
            /\ rawInfo[key].processedStatus = "processed"
            /\ rawInfo[key].hash # workers[a].hash
            /\ rawInfo[key].hash = generateContentHash(Stringify(RestV2))
            /\ workers[a].hash = generateContentHash(Stringify(RestV1))
            /\ queue = EmptyFn
            /\ run.pc = "idle" /\ tasks = <<>> )

\* --------------------------------------------------------------- C37
\* C37: no rollback on failure.  When the k-th operation of a resolution
\* raises, the entity store is left as operations 1..k-1 made it (the store
\* changes only by the write of an operation, never by an undo), the
\* invocation executes no operation after k and marks the raw record failed;
\* an invocation that later reads the record as failed runs the loop again,
\* and its operations are applied to the store as it then is.
C37_NoRollback ==
  [][\A w \in Workers :
       LET key == RawOf(workers[w].msg)
       IN  /\ (workers[w].pc \in {"exec", "write"} /\ workers'[w].pc = "catch")
              => /\ entities' = entities
                 /\ workers'[w].k = workers[w].k
           /\ workers[w].pc = "catch"
              => /\ workers'[w].pc \in {"catch", "return"}
                 /\ workers'[w].k = workers[w].k
                 /\ workers'[w].pc = "return" =>
                      /\ workers'[w].failed
                      /\ rawInfo'[key].processedStatus = "failed"
                      /\ rawInfo'[key].processError = workers[w].error
           /\ (workers[w].pc = "return" /\ workers[w].failed)
              => workers'[w].pc \in {"return", "idle"}
           /\ entities' # entities
              => \E v \in Workers :
                   /\ workers[v].pc = "write"
                   /\ entities' = ApplyWrite(entities, workers[v].write[1], now)
                   /\ workers'[v].k = workers[v].k + 1
           /\ ( /\ workers[w].pc = "get"
                /\ key \in DOMAIN rawInfo
                /\ rawInfo[key].processedStatus = "failed"
                /\ workers'[w].pc # "get" )
              => /\ workers'[w].pc = "mark"
                 /\ workers'[w].status = "failed" ]_vars

\* the first invocation added the event, failed at its second operation and
\* marked the record failed; the invocation of the second delivery read the
\* record as failed and applied both operations: the entity holds two events
C37_Witness ==
  \E a, b \in Workers :
    /\ a # b
    /\ workers[a].pc = "return" /\ workers[a].failed /\ workers[a].k = 2
    /\ workers[b].pc = "return" /\ ~workers[b].failed /\ workers[b].k = 3
    /\ workers[b].status = "failed"
    /\ Len(ListOf(entities["acme"], "recentEvents")) = 2
    /\ Len(ListOf(entities["acme"], "riskFlags")) = 1
    /\ rawInfo[RawOf(workers[b].msg)].processedStatus = "processed"

\* --------------------------------------------------------------- C38
\* C38 as stated: while the batch of a result that holds one record twice is
\* in flight and every duplicate check has read the store, one record is
\* stored under the id and at most one message was sent for it.
C38_AsStated ==
  ( /\ run.pc = "batch"
    /\ Len(tasks) = 2
    /\ tasks[1].info.id = tasks[2].info.id
    /\ tasks[1].info.hash = tasks[2].info.hash
    /\ \A i \in DOMAIN tasks : ~tasks[i].readFailed )
  => /\ Cardinality({k \in DOMAIN rawInfo : k[2] = tasks[1].info.id}) <= 1
     /\ \A m \in DOMAIN queue : m.infoId = tasks[1].info.id => queue[m] <= 1

\* --------------------------------------------------------------- C39
\* C39 as stated: for a source whose enabled flag is false no collector is
\* invoked and lastCollectedAt and the statistics stay as they were, in the
\* scheduled run and in the single-source collection request.
C39_AsStated ==
  /\ \A id \in DOMAIN sources :
       ~sources[id].enabled =>
         /\ sources[id].lastCollectedAt = NoTime
         /\ sources[id].stats = EmptyStats
  /\ fetched.pc \in {"read", "write", "done"} => fetched.cfg.enabled
  /\ run.pc = "batch" => sources[run.cur].enabled

\* --------------------------------------------------------------- C40
\* the collection runs a source has completed, as its statistics count them
CompletedRuns(id) == sources[id].stats.successCount + sources[id].stats.failedCount

\* C40 as stated: every completed collection run of a source, scheduled or
\* requested, adds one to successCount + failedCount and its saved count to
\* totalCollected, also when the two kinds of run overlap.
C40_AsStated ==
  [][ /\ (fetched.pc = "write" /\ fetched'.pc = "done")
         => LET id == fetched.cfg.id
            IN  /\ CompletedRuns(id)' = CompletedRuns(id) + 1
                /\ sources'[id].stats.totalCollected
                     = sources[id].stats.totalCollected + fetched.saved
      /\ (run.pc \in {"loop", "batch"} /\ sources' # sources)
         => \A id \in DOMAIN sources :
              sources'[id] # sources[id] =>
                /\ CompletedRuns(id)' = CompletedRuns(id) + 1
                /\ sources'[id].stats.totalCollected
                     = sources[id].stats.totalCollected + sources'[id].stats.lastItemCount
    ]_vars
====
